---------------------------- MODULE Spec2Model ----------------------------
(***************************************************************************)
(* Model of the CV / job matching engine (src/analysis/matching.py) and of *)
(* the embedding models held by the process (src/analysis/matching.py,     *)
(* src/analysis/job_titles.py, src/analysis/semantic_matching.py).         *)
(*                                                                         *)
(* Numbers.  Python floats are modelled as exact fixed-point integers:     *)
(*   - a coverage or similarity c is the integer c * Unit;                 *)
(*   - a weight w is the integer w * 100 (hundredths);                     *)
(*   - a value rounded to 2 decimals is an integer count of hundredths,    *)
(*     to 3 decimals a count of thousandths, a score a count of tenths;    *)
(*   - a raw cosine similarity is a count of ten-thousandths.              *)
(* round() is round-half-to-even, as Python's.                             *)
(*                                                                         *)
(* Values.  A Python value is a record [t, v]: t is its type ("str",       *)
(* "list", "none", "num") and v its content, a tuple of characters for a   *)
(* str, a tuple of values for a list.                                      *)
(***************************************************************************)
EXTENDS Integers, Sequences, FiniteSets, TLC

\* ------------------------------------------------------------------ bounds
\* longest list handed to embed_texts / semantic_overlap by a direct call
MaxTexts == 2
\* most rows of the job DataFrame handed to match_cv_market
MaxJobs == 3
\* threads of the host calling into the embedding provider
NumThreads == 2
\* longest raw string handed to norm_text / norm_list by a direct call
MaxChars == 4
\* most rows of a raw offers DataFrame handed to merge_sources
MaxRows == 2
\* largest page size (step) of fetch_all_ft_offers
MaxStep == 3
\* largest max_results of fetch_all_ft_offers
MaxResults == 6
\* most pages the France Travail API has an answer for
MaxPages == 3
\* number of distinct timestamps a snapshot file name can carry
MaxStamps == 2

\* ------------------------------------------------------------- arithmetic
\* 1.0 as a fixed-point integer; divisible by 1..6, by 100, 1000 and 10000
Unit == 60 * 1000

Hundredth == Unit \div 100
Thousandth == Unit \div 1000
TenThousandth == Unit \div 10000

\* n / d rounded to the nearest integer, ties to the even one (d > 0)
RoundHalfEven(n, d) ==
    LET q == n \div d
        r == n % d
    IN  IF 2 * r < d THEN q
        ELSE IF 2 * r > d THEN q + 1
        ELSE IF q % 2 = 0 THEN q ELSE q + 1

\* round(x, 2) of a fixed-point x, as a count of hundredths
Round2(x) == RoundHalfEven(x, Hundredth)

\* round(x, 3) of a fixed-point x, as a count of thousandths
Round3(x) == RoundHalfEven(x, Thousandth)

\* ----------------------------------------------------------- Python values
None == [t |-> "none", v |-> <<>>]
Num == [t |-> "num", v |-> <<>>]
Str(chars) == [t |-> "str", v |-> chars]
List(elems) == [t |-> "list", v |-> elems]

IsStr(x) == x.t = "str"
IsList(x) == x.t = "list"

\* the characters of the model: two letters in both cases, space and tab
Whitespace == {" ", "\t"}
Chars == {"a", "b", "A", "B"} \cup Whitespace

\* str.lower() on one character
LowerChar(c) == IF c = "A" THEN "a" ELSE IF c = "B" THEN "b" ELSE c

\* code point order of the characters, used by sorted()
CharOrd(c) ==
    CASE c = "\t" -> 9
      [] c = " " -> 32
      [] c = "A" -> 65
      [] c = "B" -> 66
      [] c = "a" -> 97
      [] c = "b" -> 98

RECURSIVE StripLeft(_)
StripLeft(s) ==
    IF s = <<>> THEN <<>>
    ELSE IF Head(s) \in Whitespace THEN StripLeft(Tail(s)) ELSE s

RECURSIVE StripRight(_)
StripRight(s) ==
    IF s = <<>> THEN <<>>
    ELSE IF s[Len(s)] \in Whitespace THEN StripRight(SubSeq(s, 1, Len(s) - 1))
    ELSE s

\* str.strip(" "): only spaces are stripped, a tab stays
Strip_SpacesOnly(s) ==
    LET first == CHOOSE i \in 1..(Len(s) + 1) :
                     /\ \A j \in 1..(i - 1) : s[j] = " "
                     /\ (i = Len(s) + 1 \/ s[i] # " ")
        left == SubSeq(s, first, Len(s))
        final == CHOOSE i \in 0..Len(left) :
                     /\ \A j \in (i + 1)..Len(left) : left[j] = " "
                     /\ (i = 0 \/ left[i] # " ")
    IN  SubSeq(left, 1, final)

\* str.strip()
Strip(s) == StripRight(StripLeft(s))

\* str.lower()
Lower(s) == [i \in 1..Len(s) |-> LowerChar(s[i])]

\* re.sub(r"\s+", " ", s): every maximal run of whitespace becomes one space
RECURSIVE CollapseWs(_)
CollapseWs(s) ==
    IF s = <<>> THEN <<>>
    ELSE IF Head(s) \in Whitespace
         THEN <<" ">> \o CollapseWs(StripLeft(s))
         ELSE <<Head(s)>> \o CollapseWs(Tail(s))

\* norm_text: "" for a non-string, else strip, lower, collapse whitespace
norm_text(s) ==
    IF ~IsStr(s) THEN Str(<<>>)
    ELSE Str(CollapseWs(Lower(Strip(s.v))))

\* truthiness of a str: non-empty
Truthy(s) == s.v # <<>>

\* the loop of norm_list without "if vv": an empty normalized string is kept
NormElems_KeepsEmpty(elems) ==
    LET strs == SelectSeq(elems, IsStr)
    IN  [i \in 1..Len(strs) |-> norm_text(strs[i])]

\* norm_list: [] for a non-list; keeps the normalized non-empty strings
NormElems(elems) ==
    LET strs == SelectSeq(elems, IsStr)
        out == [i \in 1..Len(strs) |-> norm_text(strs[i])]
    IN  SelectSeq(out, Truthy)

\* norm_list without the isinstance test: a str is iterated character by
\* character
norm_list_IteratesStr(x) ==
    IF IsList(x) THEN NormElems(x.v)
    ELSE IF IsStr(x) THEN NormElems([i \in 1..Len(x.v) |-> Str(<<x.v[i]>>)])
    ELSE <<>>

norm_list(x) == IF ~IsList(x) THEN <<>> ELSE NormElems(x.v)

\* set(a_list)
SetOf(seq) == {seq[i] : i \in 1..Len(seq)}

to_set(x) == SetOf(norm_list(x))

\* ------------------------------------------------------- sorted(set(...))
\* s < t in Python's string order (code points, a proper prefix first)
RECURSIVE StrLess(_, _)
StrLess(s, t) ==
    IF t = <<>> THEN FALSE
    ELSE IF s = <<>> THEN TRUE
    ELSE IF Head(s) = Head(t) THEN StrLess(Tail(s), Tail(t))
    ELSE CharOrd(Head(s)) < CharOrd(Head(t))

RECURSIVE Sorted(_)
Sorted(S) ==
    IF S = {} THEN <<>>
    ELSE LET m == CHOOSE x \in S : \A y \in S \ {x} : StrLess(x.v, y.v)
         IN  <<m>> \o Sorted(S \ {m})

\* --------------------------------------------------------------- coverage
\* coverage without the vacuous pass: an empty job_set scores 0.0
coverage_ZeroWhenEmpty(cv_set, job_set) ==
    IF job_set = {} THEN 0
    ELSE (Cardinality(cv_set \cap job_set) * Unit) \div Cardinality(job_set)

\* coverage dividing by the size of the candidate set
coverage_OverCandidate(cv_set, job_set) ==
    IF job_set = {} THEN Unit
    ELSE IF cv_set = {} THEN 0
    ELSE (Cardinality(cv_set \cap job_set) * Unit) \div Cardinality(cv_set)

\* coverage(cv_set, job_set): 1.0 for an empty job_set, else the fraction
coverage(cv_set, job_set) ==
    IF job_set = {} THEN Unit
    ELSE (Cardinality(cv_set \cap job_set) * Unit) \div Cardinality(job_set)


\* ----------------------------------------------------------- process state
VARIABLES
    _MODEL,      \* matching._MODEL: NoModel, or the instance it holds
    jt_model,    \* job_titles.model: NoModel until the module is imported
    sm_model,    \* semantic_matching.model: NoModel until it is imported
    instances,   \* number of SentenceTransformer objects constructed so far
    embedded,    \* TRUE once matching's model has encoded some text
    sim,         \* the provider: cosine similarity of each pair of texts
    last,        \* the call in progress in the main thread and its outcome
    pc,          \* per thread: its position inside embed_texts / get_model
    arg,         \* per thread: the texts it was asked to embed
    got,         \* per thread: the instance get_model returned to it
    session_state,  \* the dashboard's st.session_state: df, tmp_csv, source
    tmp_files    \* the snapshot files present in the temporary directory

\* the state of the dashboard
dashboard == <<session_state, tmp_files>>

vars == <<_MODEL, jt_model, sm_model, instances, embedded, sim, last, pc, arg, got,
          dashboard>>

NoModel == 0
MainThread == 1
Threads == 1..NumThreads

\* the part of the process state that the matching module reads and writes
ProcState == [model |-> _MODEL, instances |-> instances, embedded |-> embedded]

\* ------------------------------------------------------ embedding provider
\* get_model run to completion by thread who: constructs the model when the
\* global is None; the instance is named after the thread that built it
get_model(P, who) ==
    IF P.model = NoModel
    THEN [P EXCEPT !.model = who, !.instances = @ + 1]
    ELSE P

\* embed_texts without the early return for an empty list
embed_texts_NoEmptyCheck(P, texts) ==
    [P |-> [get_model(P, MainThread) EXCEPT !.embedded = TRUE], out |-> texts]

\* embed_texts: no model for an empty list; else get_model() then encode.
\* The vector of a text is identified with the text.
embed_texts(P, texts) ==
    IF texts = <<>> THEN [P |-> P, out |-> <<>>]
    ELSE [P |-> [get_model(P, MainThread) EXCEPT !.embedded = TRUE], out |-> texts]

\* embed_text: get_model() then encode([text])
embed_text(P, text) ==
    [P |-> [get_model(P, MainThread) EXCEPT !.embedded = TRUE], out |-> <<text>>]

\* cosine_similarity of the vectors of two texts, in fixed-point
cosine_similarity(x, y) ==
    IF x = y THEN Unit ELSE sim[{x, y}] * TenThousandth

\* sim[i][0]: the similarity of job item x to the first cv item only
MaxSim_First(x, cv_items) == cosine_similarity(x, cv_items[1])

\* sim[i].max(): the best similarity of job item x over the cv items
RECURSIVE MaxSim(_, _)
MaxSim(x, cv_items) ==
    IF Len(cv_items) = 1 THEN cosine_similarity(x, cv_items[1])
    ELSE LET m == MaxSim(x, Tail(cv_items))
             h == cosine_similarity(x, Head(cv_items))
         IN  IF h >= m THEN h ELSE m

\* the job items, in order, whose best similarity reaches the threshold
\* (matched = TRUE) or does not (matched = FALSE): the loop of lines 102-107
Filter(items, cv, threshold, matched) ==
    LET Kept(x) == (MaxSim(x, cv) >= threshold) = matched
    IN  SelectSeq(items, Kept)

\* semantic_overlap testing the CV side first: nothing on either side then
\* gives coverage 0.0
semantic_overlap_CvFirst(P, cv_items, job_items, threshold) ==
    LET cv == NormElems(cv_items)
        job == NormElems(job_items)
    IN  IF cv = <<>>
        THEN [P |-> P, out |-> [matched |-> <<>>, missing |-> job, coverage |-> 0]]
        ELSE IF job = <<>>
        THEN [P |-> P, out |-> [matched |-> <<>>, missing |-> <<>>, coverage |-> Unit]]
        ELSE LET e1 == embed_texts(P, cv)
                 e2 == embed_texts(e1.P, job)
                 matched == Filter(e2.out, e1.out, threshold, TRUE)
                 missing == Filter(e2.out, e1.out, threshold, FALSE)
                 cov == (Len(matched) * Unit) \div Len(job)
             IN  [P |-> e2.P,
                  out |-> [matched |-> matched, missing |-> missing,
                           coverage |-> Round2(cov) * Hundredth]]

\* semantic_overlap(cv_items, job_items, threshold)
semantic_overlap(P, cv_items, job_items, threshold) ==
    LET cv == NormElems(cv_items)
        job == NormElems(job_items)
    IN  IF job = <<>>
        THEN [P |-> P, out |-> [matched |-> <<>>, missing |-> <<>>, coverage |-> Unit]]
        ELSE IF cv = <<>>
        THEN [P |-> P, out |-> [matched |-> <<>>, missing |-> job, coverage |-> 0]]
        ELSE LET e1 == embed_texts(P, cv)
                 e2 == embed_texts(e1.P, job)
                 matched == Filter(e2.out, e1.out, threshold, TRUE)
                 missing == Filter(e2.out, e1.out, threshold, FALSE)
                 cov == (Len(matched) * Unit) \div Len(job)
             IN  [P |-> e2.P,
                  out |-> [matched |-> matched, missing |-> missing,
                           coverage |-> Round2(cov) * Hundredth]]

\* semantic_similarity_text(cv_text, job_text)
semantic_similarity_text(P, cv_text, job_text) ==
    LET a == norm_text(cv_text)
        b == norm_text(job_text)
    IN  IF ~Truthy(a) \/ ~Truthy(b) THEN [P |-> P, out |-> 0]
        ELSE LET e1 == embed_text(P, a)
                 e2 == embed_text(e1.P, b)
                 s == cosine_similarity(e1.out[1], e2.out[1])
             IN  [P |-> e2.P, out |-> Round3(s) * Thousandth]


\* ------------------------------------------------------------ match_cv_job
\* dict.get(key, default) / Series.get(key, default)
Get(d, key, default) == IF key \in DOMAIN d THEN d[key] ELSE default

\* the default weights, in hundredths
DefaultWeights ==
    [hard_required |-> 45, hard_optional |-> 15, soft |-> 10,
     languages |-> 10, description |-> 20]

\* the keys the score expression subscripts the weights with
WeightKeys == {"hard_required", "hard_optional", "soft", "languages", "description"}

\* round(total * 100, 1) as a count of tenths; total is a sum of
\* weight (hundredths) * coverage (fixed-point)
ScoreOf(total) == RoundHalfEven(total * 10, Unit)

\* the weighted sum over weights rescaled to sum to 1.0
WeightedTotal_Normalized(weights, req_cov, opt_cov, soft_cov, lang_cov, desc_sim) ==
    ((weights["hard_required"] * req_cov
      + weights["hard_optional"] * opt_cov
      + weights["soft"] * soft_cov
      + weights["languages"] * lang_cov
      + weights["description"] * desc_sim) * 100)
    \div (weights["hard_required"] + weights["hard_optional"] + weights["soft"]
          + weights["languages"] + weights["description"])

\* "total = (...)": the weighted sum of the four coverages and the
\* description similarity, the weights taken as they are
WeightedTotal(weights, req_cov, opt_cov, soft_cov, lang_cov, desc_sim) ==
    weights["hard_required"] * req_cov
    + weights["hard_optional"] * opt_cov
    + weights["soft"] * soft_cov
    + weights["languages"] * lang_cov
    + weights["description"] * desc_sim

\* the fallback taken whether or not use_semantic_skills is set
NeedsFallback_IgnoresFlag(use_semantic_skills, job_list, job_set, cv_set) ==
    job_list # <<>> /\ Cardinality(job_set \ cv_set) > 0

\* the fallback taken whenever the job side is non-empty
NeedsFallback_Always(use_semantic_skills, job_list, job_set, cv_set) ==
    use_semantic_skills /\ job_list # <<>>

\* the condition under which a category gets the semantic fallback:
\* "if job_req_list and (len(job_req - cv_hard) > 0)" under use_semantic_skills
NeedsFallback(use_semantic_skills, job_list, job_set, cv_set) ==
    use_semantic_skills /\ job_list # <<>> /\ Cardinality(job_set \ cv_set) > 0

\* the category with the exact set difference taken the wrong way round
CategoryMatch_ReversedDifference(P, use_semantic_skills, threshold, cv_list, job_list) ==
    LET cv_set == SetOf(cv_list)
        job_set == SetOf(job_list)
    IN  IF NeedsFallback(use_semantic_skills, job_list, job_set, cv_set)
        THEN LET detail == semantic_overlap(P, cv_list, job_list, threshold)
             IN  [P |-> detail.P, called |-> TRUE,
                  coverage |-> detail.out.coverage,
                  missing |-> SetOf(detail.out.missing)]
        ELSE [P |-> P, called |-> FALSE,
              coverage |-> coverage(cv_set, job_set),
              missing |-> cv_set \ job_set]

\* the category reporting the exact set difference even when the fallback
\* was computed
CategoryMatch_ExactMissing(P, use_semantic_skills, threshold, cv_list, job_list) ==
    LET cv_set == SetOf(cv_list)
        job_set == SetOf(job_list)
    IN  IF NeedsFallback(use_semantic_skills, job_list, job_set, cv_set)
        THEN LET detail == semantic_overlap(P, cv_list, job_list, threshold)
             IN  [P |-> detail.P, called |-> TRUE,
                  coverage |-> detail.out.coverage,
                  missing |-> job_set \ cv_set]
        ELSE [P |-> P, called |-> FALSE,
              coverage |-> coverage(cv_set, job_set),
              missing |-> job_set \ cv_set]

\* the category with the two sets handed to coverage() in the wrong order
CategoryMatch_SwappedSets(P, use_semantic_skills, threshold, cv_list, job_list) ==
    LET cv_set == SetOf(cv_list)
        job_set == SetOf(job_list)
    IN  IF NeedsFallback(use_semantic_skills, job_list, job_set, cv_set)
        THEN LET detail == semantic_overlap(P, cv_list, job_list, threshold)
             IN  [P |-> detail.P, called |-> TRUE,
                  coverage |-> detail.out.coverage,
                  missing |-> SetOf(detail.out.missing)]
        ELSE [P |-> P, called |-> FALSE,
              coverage |-> coverage(job_set, cv_set),
              missing |-> job_set \ cv_set]

\* One of the categories hard-required, hard-optional, required-language:
\* its exact coverage (lines 198-201), the semantic fallback when it is
\* needed (lines 212-226) and its missing items, the fallback's when the
\* fallback was computed, else the set difference (lines 243-254).
\* called tells whether semantic_overlap was invoked.
CategoryMatch(P, use_semantic_skills, threshold, cv_list, job_list) ==
    LET cv_set == SetOf(cv_list)
        job_set == SetOf(job_list)
    IN  IF NeedsFallback(use_semantic_skills, job_list, job_set, cv_set)
        THEN LET detail == semantic_overlap(P, cv_list, job_list, threshold)
             IN  [P |-> detail.P, called |-> TRUE,
                  coverage |-> detail.out.coverage,
                  missing |-> SetOf(detail.out.missing)]
        ELSE [P |-> P, called |-> FALSE,
              coverage |-> coverage(cv_set, job_set),
              missing |-> job_set \ cv_set]

\* the description similarity computed whatever use_description_semantic is
DescriptionMatch_IgnoresFlag(P, use_description_semantic, cv_text, job_desc) ==
    semantic_similarity_text(P, cv_text, job_desc)

\* the description similarity of lines 228-231
DescriptionMatch(P, use_description_semantic, cv_text, job_desc) ==
    IF use_description_semantic
    THEN semantic_similarity_text(P, cv_text, job_desc)
    ELSE [P |-> P, out |-> 0]

\* the score (lines 233-240) and the returned dict (lines 256-279), from the
\* three categories above, the description similarity and the exact soft
\* and optional-language sets; KeyError when a weight is missing
MatchResult(cv, job, opt, weights, req, optional, lang, desc) ==
    LET cv_soft == to_set(Get(cv, "skills_soft", None))
        cv_lang == to_set(Get(cv, "languages", None))
        job_soft == to_set(Get(job, "skills_soft", None))
        job_lang_opt == to_set(Get(job, "languages_optional", None))
        soft_exact == coverage(cv_soft, job_soft)
        sem_calls == (IF req.called THEN {"hard_required"} ELSE {})
                     \cup (IF optional.called THEN {"hard_optional"} ELSE {})
                     \cup (IF lang.called THEN {"languages"} ELSE {})
    IN  IF ~(WeightKeys \subseteq DOMAIN weights)
        THEN [P |-> desc.P, status |-> "KeyError", out |-> <<>>, sem_calls |-> sem_calls]
        ELSE [P |-> desc.P, status |-> "ok", sem_calls |-> sem_calls,
              out |-> [score |-> ScoreOf(WeightedTotal(weights, req.coverage,
                                                       optional.coverage, soft_exact,
                                                       lang.coverage, desc.out)),
                       hard_required_coverage |-> Round2(req.coverage),
                       hard_optional_coverage |-> Round2(optional.coverage),
                       soft_coverage |-> Round2(soft_exact),
                       languages_required_coverage |-> Round2(lang.coverage),
                       description_similarity |-> Round3(desc.out),
                       hard_required_missing |-> Sorted(req.missing),
                       hard_optional_missing |-> Sorted(optional.missing),
                       soft_skills_missing |-> Sorted(job_soft \ cv_soft),
                       languages_required_missing |-> Sorted(lang.missing),
                       languages_optional_missing |-> Sorted(job_lang_opt \ cv_lang),
                       used_semantic_skills |-> opt.use_semantic_skills,
                       skill_threshold |-> opt.skill_threshold,
                       used_description_semantic |-> opt.use_description_semantic,
                       weights |-> weights]]

\* match_cv_job(cv, job, use_semantic_skills=, skill_threshold=,
\* use_description_semantic=, weights=).  opt holds the keyword arguments,
\* skill_threshold in hundredths.  Returns the process state, the outcome
\* (status "ok" and the dict, or the exception raised) and sem_calls, the
\* categories semantic_overlap was invoked for.  The calls that may embed
\* happen in the order of the code: required, optional, languages,
\* description.
match_cv_job(P, cv, job, opt) ==
    LET threshold == opt.skill_threshold * Hundredth
        cv_hard_list == norm_list(Get(cv, "skills_hard", None))
        req == CategoryMatch(P, opt.use_semantic_skills, threshold, cv_hard_list,
                             norm_list(Get(job, "skills_hard_required", None)))
        optional == CategoryMatch(req.P, opt.use_semantic_skills, threshold, cv_hard_list,
                                  norm_list(Get(job, "skills_hard_optional", None)))
        lang == CategoryMatch(optional.P, opt.use_semantic_skills, threshold,
                              norm_list(Get(cv, "languages", None)),
                              norm_list(Get(job, "languages_required", None)))
        desc == DescriptionMatch(lang.P, opt.use_description_semantic,
                                 norm_text(Get(cv, "text", Str(<<>>))),
                                 norm_text(Get(job, "description", Str(<<>>))))
    IN  MatchResult(cv, job, opt,
                    IF opt.weights.t = "none" THEN DefaultWeights ELSE opt.weights.v,
                    req, optional, lang, desc)

\* --------------------------------------------------------- match_cv_market
\* the filter with a strict comparison
Keeps_Strict(m, min_score) == m.score > min_score

\* "if m["score"] >= min_score": the row is kept
Keeps(m, min_score) == m.score >= min_score

\* the row appended for a kept job: the job's summary fields and **m
RowOf(job, m) ==
    m @@ [job_title |-> Get(job, "title", ""),
          company |-> Get(job, "company", ""),
          location |-> Get(job, "location", ""),
          source |-> Get(job, "source", ""),
          url |-> Get(job, "url", "")]

\* the loop that ends at the first job below min_score instead of skipping it
KeepRow_StopsAtFirstMiss(m, job, min_score, rest) ==
    [P |-> rest.P, status |-> rest.status, evals |-> rest.evals + 1,
     results |-> IF rest.status # "ok" THEN <<>>
                 ELSE IF Keeps(m.out, min_score)
                 THEN <<RowOf(job, m.out)>> \o rest.results
                 ELSE <<>>]

\* the body of the loop for one job already matched (m), rest being the
\* outcome of the loop over the jobs after it: the row is kept when the
\* score reaches min_score
KeepRow(m, job, min_score, rest) ==
    [P |-> rest.P, status |-> rest.status, evals |-> rest.evals + 1,
     results |-> IF rest.status # "ok" THEN <<>>
                 ELSE IF Keeps(m.out, min_score)
                 THEN <<RowOf(job, m.out)>> \o rest.results
                 ELSE rest.results]

\* the loop over df_jobs.iterrows(): every job is matched in input order;
\* an exception of match_cv_job ends the loop and propagates; evals counts
\* the calls of match_cv_job
RECURSIVE MarketLoop(_, _, _, _, _)
MarketStep(m, cv, jobs, min_score, opt) ==
    IF m.status # "ok"
    THEN [P |-> m.P, status |-> m.status, evals |-> 1, results |-> <<>>]
    ELSE KeepRow(m, Head(jobs), min_score,
                 MarketLoop(m.P, cv, Tail(jobs), min_score, opt))

MarketLoop(P, cv, jobs, min_score, opt) ==
    IF jobs = <<>> THEN [P |-> P, status |-> "ok", evals |-> 0, results |-> <<>>]
    ELSE MarketStep(match_cv_job(P, cv, Head(jobs), opt), cv, jobs, min_score, opt)

\* a sorts strictly before b in ascending order of the three sort columns
RowKeyLess(a, b) ==
    \/ a.score < b.score
    \/ /\ a.score = b.score
       /\ a.hard_required_coverage < b.hard_required_coverage
    \/ /\ a.score = b.score
       /\ a.hard_required_coverage = b.hard_required_coverage
       /\ a.description_similarity < b.description_similarity

\* where sort_values(ascending=False) puts a row among those already placed:
\* before the first row with a strictly smaller key (the sort is stable)
RECURSIVE InsertRow(_, _)
InsertRow(sorted, row) ==
    IF sorted = <<>> THEN <<row>>
    ELSE IF RowKeyLess(Head(sorted), row) THEN <<row>> \o sorted
    ELSE <<Head(sorted)>> \o InsertRow(Tail(sorted), row)

\* DataFrame(results).sort_values([score, hard_required_coverage,
\* description_similarity], ascending=False).reset_index(drop=True)
RECURSIVE sort_values(_)
sort_values(rows) ==
    IF rows = <<>> THEN <<>>
    ELSE InsertRow(sort_values(SubSeq(rows, 1, Len(rows) - 1)), rows[Len(rows)])

\* the return without "if not results": sorting a frame that has no "score"
\* column raises KeyError
Ranked_SortsEmpty(loop) ==
    [P |-> loop.P, evals |-> loop.evals,
     status |-> IF loop.status = "ok" /\ loop.results = <<>> THEN "KeyError"
                ELSE loop.status,
     out |-> IF loop.status # "ok" \/ loop.results = <<>> THEN <<>>
             ELSE sort_values(loop.results)]

\* the value returned after the loop: an empty DataFrame when no row is
\* kept, else the kept rows sorted
Ranked(loop) ==
    [P |-> loop.P, status |-> loop.status, evals |-> loop.evals,
     out |-> IF loop.status # "ok" \/ loop.results = <<>> THEN <<>>
             ELSE sort_values(loop.results)]

\* match_cv_market(cv, df_jobs, min_score=, ...)
match_cv_market(P, cv, df_jobs, min_score, opt) ==
    Ranked(MarketLoop(P, cv, df_jobs, min_score, opt))

\* ----------------------------------------------------------- preprocessing
\* A raw DataFrame is Frame(rows), rows being the sequence of its rows, each
\* a record.  A column exists when some row has it, and a row without it
\* holds NaN there.
Frame(rows) == [t |-> "frame", v |-> rows]
HasColumn(df, c) == \E i \in 1..Len(df) : c \in DOMAIN df[i]
Cell(row, c) == Get(row, c, Num)

\* df.get(c) of a pass-through column: the column, or None for every row
Column(df, row, c) == IF HasColumn(df, c) THEN Cell(row, c) ELSE None

\* safe_list(x): x when it is a list, else []
safe_list(x) == IF IsList(x) THEN x.v ELSE <<>>

\* [i.get("libelle") for i in items if i.get("exigence") == exigence]; an
\* item without "exigence" compares unequal to "E" and to "S", as "" does
RECURSIVE Labels(_, _)
Labels(items, exigence) ==
    IF items = <<>> THEN <<>>
    ELSE LET rest == Labels(Tail(items), exigence)
         IN  IF Get(Head(items), "exigence", "") = exigence
             THEN <<Get(Head(items), "libelle", None)>> \o rest
             ELSE rest

\* extract_required_optional(items): the labels marked "E" and those marked "S"
extract_required_optional(items) ==
    IF ~IsList(items) THEN [required |-> <<>>, optional |-> <<>>]
    ELSE [required |-> Labels(items.v, "E"), optional |-> Labels(items.v, "S")]

\* [q.get("libelle") for q in x]
LabelsOf(x) == [i \in 1..Len(x) |-> Get(x[i], "libelle", None)]

\* the columns preprocess_wttj calls .apply on: df.get gives None (or the
\* default []) for a missing one and .apply raises AttributeError
WttjApplied == {"competences_techniques", "savoir_faire", "savoir_etre", "langues"}

\* the normalized row preprocess_wttj builds from one raw row
WttjRecord(df, row) ==
    [title |-> Column(df, row, "title"),
     description |-> Column(df, row, "description"),
     skills_hard_required |-> List(safe_list(Cell(row, "competences_techniques"))
                                   \o safe_list(Cell(row, "savoir_faire"))),
     skills_hard_optional |-> List(<<>>),
     skills_soft |-> List(safe_list(Cell(row, "savoir_etre"))),
     languages_required |-> List(<<>>),
     languages_optional |-> List(safe_list(Cell(row, "langues"))),
     source |-> "Welcome to the Jungle"]

\* preprocess_wttj(df)
preprocess_wttj(df) ==
    IF \E c \in WttjApplied : ~HasColumn(df, c)
    THEN [status |-> "AttributeError", out |-> <<>>]
    ELSE [status |-> "ok", out |-> [i \in 1..Len(df) |-> WttjRecord(df, df[i])]]

\* the normalized row preprocess_ft builds from one raw row; row.get gives
\* None for a missing column
FtRecord(df, row) ==
    [title |-> Column(df, row, "intitule"),
     description |-> Column(df, row, "description"),
     skills_hard_required |->
         List(extract_required_optional(Column(df, row, "competences")).required),
     skills_hard_optional |->
         List(extract_required_optional(Column(df, row, "competences")).optional),
     skills_soft |->
         List(IF IsList(Cell(row, "qualitesProfessionnelles"))
              THEN LabelsOf(Cell(row, "qualitesProfessionnelles").v)
              ELSE <<>>),
     languages_required |->
         List(extract_required_optional(Column(df, row, "langues")).required),
     languages_optional |->
         List(extract_required_optional(Column(df, row, "langues")).optional),
     source |-> "France Travail"]

\* preprocess_ft(df)
preprocess_ft(df) ==
    IF ~HasColumn(df, "qualitesProfessionnelles")
    THEN [status |-> "AttributeError", out |-> <<>>]
    ELSE [status |-> "ok", out |-> [i \in 1..Len(df) |-> FtRecord(df, df[i])]]

\* df[col].fillna(""), on the text columns
FillNa(rec) ==
    [rec EXCEPT !.title = IF @.t \in {"none", "num"} THEN Str(<<>>) ELSE @,
                !.description = IF @.t \in {"none", "num"} THEN Str(<<>>) ELSE @]

\* a frame argument of merge_sources that is not None and not empty
Given(df) == df.t = "frame" /\ df.v # <<>>

\* the concatenation of the frames preprocessed, each text column filled
Merged(w, f) ==
    IF w.status # "ok" THEN [status |-> w.status, out |-> <<>>]
    ELSE IF f.status # "ok" THEN [status |-> f.status, out |-> <<>>]
    ELSE [status |-> "ok",
          out |-> [i \in 1..(Len(w.out) + Len(f.out)) |-> FillNa((w.out \o f.out)[i])]]

\* merge_sources(df_wttj, df_ft): a frame that is None or empty is skipped
merge_sources(df_wttj, df_ft) ==
    Merged(IF Given(df_wttj) THEN preprocess_wttj(df_wttj.v)
           ELSE [status |-> "ok", out |-> <<>>],
           IF Given(df_ft) THEN preprocess_ft(df_ft.v)
           ELSE [status |-> "ok", out |-> <<>>])

\* ------------------------------------------------------------------ inputs
\* strings: sA, sB, sAB are normalized; rA and rAB normalize to sA and sAB
sA == Str(<<"a">>)
sB == Str(<<"b">>)
sAB == Str(<<"a", " ", "b">>)
rA == Str(<<" ", "A">>)
rAB == Str(<<"A", "\t", " ", "b">>)
Blank == Str(<<" ">>)
Empty == Str(<<>>)

\* the non-empty normalized strings the inputs give rise to
Vocab == {sA, sB, sAB}

\* the pairs of distinct texts the provider is asked to compare
Pairs == {{x, y} : x \in Vocab, y \in Vocab} \ {{x} : x \in Vocab}

\* raw cosine similarities in ten-thousandths: a negative one, and one that
\* is above the threshold 0.50 and just below 0.75 (0.7496 rounds to 0.750)
SimLevels == {0 - 1234, 7496}

\* all sequences over S of length at most n
RECURSIVE SeqsUpTo(_, _)
SeqsUpTo(S, n) ==
    IF n = 0 THEN {<<>>}
    ELSE LET shorter == SeqsUpTo(S, n - 1)
         IN  shorter \cup {Append(q, x) : q \in shorter, x \in S}

\* every string over Chars of at most MaxChars characters
RawStrings == {Str(q) : q \in SeqsUpTo(Chars, MaxChars)}

\* values handed to norm_text: the strings, None, a number, a list
RawTexts == RawStrings \cup {None, Num, List(<<sA>>)}

\* elements of the lists handed to norm_list: strings to normalize, a blank
\* and an empty string, a number, None and a nested list
RawElems == {rA, rAB, sB, Blank, Empty, Num, None, List(<<sA>>)}

\* values handed to norm_list / to_set: lists of such elements, the list of
\* each single string, and values that are not lists
RawLists ==
    {List(q) : q \in SeqsUpTo(RawElems, MaxTexts)}
    \cup {List(<<x>>) : x \in RawStrings}
    \cup {None, Num, rAB}

\* raw Welcome to the Jungle rows: clean lists; labels as the site writes
\* them, NaN and None cells; a row without the savoir_etre column
wttj1 == [title |-> sA, description |-> sB,
          competences_techniques |-> List(<<sA>>), savoir_faire |-> List(<<sB>>),
          savoir_etre |-> List(<<sAB>>), langues |-> List(<<sA>>)]
wttj2 == [title |-> None, description |-> Num,
          competences_techniques |-> List(<<rA>>), savoir_faire |-> Num,
          savoir_etre |-> None, langues |-> List(<<rAB>>)]
wttj3 == [title |-> sB,
          competences_techniques |-> List(<<sB>>), savoir_faire |-> List(<<>>),
          langues |-> Num]
WttjRows == {wttj1, wttj2, wttj3}

\* raw France Travail rows: clean labels with their exigence; raw labels, an
\* item without libelle, NaN and None cells; a row without the
\* qualitesProfessionnelles column
ft1 == [intitule |-> sA, description |-> sB,
        competences |-> List(<<[libelle |-> sA, exigence |-> "E"],
                               [libelle |-> sB, exigence |-> "S"]>>),
        langues |-> List(<<[libelle |-> sA, exigence |-> "E"]>>),
        qualitesProfessionnelles |-> List(<<[libelle |-> sB]>>)]
ft2 == [intitule |-> None, description |-> None,
        competences |-> List(<<[libelle |-> rA, exigence |-> "E"],
                               [exigence |-> "S"]>>),
        langues |-> Num,
        qualitesProfessionnelles |-> None]
ft3 == [intitule |-> sB,
        competences |-> None,
        langues |-> List(<<[libelle |-> sB, exigence |-> "S"],
                           [libelle |-> sA]>>)]
FtRows == {ft1, ft2, ft3}

\* the frames handed to merge_sources: None, or up to MaxRows rows
WttjFrames == {None} \cup {Frame(q) : q \in SeqsUpTo(WttjRows, MaxRows)}
FtFrames == {None} \cup {Frame(q) : q \in SeqsUpTo(FtRows, MaxRows)}

\* CVs: one with a string where a list is expected, a number, missing keys
cvBad == [skills_hard |-> sA, languages |-> Num, text |-> rA]
cv1 == [skills_hard |-> List(<<rA>>), skills_soft |-> List(<<sB>>),
        languages |-> List(<<sA>>), text |-> sA]
cv2 == [skills_hard |-> List(<<sA, sB>>), skills_soft |-> List(<<>>),
        languages |-> List(<<sB>>), text |-> rAB]
CVs == {cvBad, cv1, cv2}

\* job rows
job1 == [title |-> "j1", company |-> "c1", location |-> "l1", source |-> "ft",
         url |-> "u1",
         skills_hard_required |-> List(<<sA, sB>>),
         skills_hard_optional |-> List(<<sAB>>),
         skills_soft |-> List(<<sB>>),
         languages_required |-> List(<<sB>>),
         languages_optional |-> List(<<sA>>),
         description |-> sB]
job2 == [title |-> "j2", company |-> "c2", location |-> "l2", source |-> "wttj",
         url |-> "u2",
         skills_hard_required |-> List(<<rA>>),
         skills_hard_optional |-> List(<<>>),
         skills_soft |-> List(<<>>),
         languages_required |-> List(<<>>),
         languages_optional |-> List(<<>>),
         description |-> Empty]
job3 == [title |-> "j3", company |-> "c3", location |-> "l3", source |-> "ft",
         url |-> "u3",
         skills_hard_required |-> List(<<sA, sA, sAB>>),
         skills_hard_optional |-> List(<<sB>>),
         skills_soft |-> List(<<sA>>),
         languages_required |-> List(<<sA>>),
         description |-> sAB]
job4 == [title |-> "j4", company |-> "c4", location |-> "l4", source |-> "wttj",
         url |-> "u4",
         skills_hard_required |-> None,
         skills_hard_optional |-> List(<<Num, Blank, sB>>),
         skills_soft |-> sA,
         languages_required |-> List(<<sA>>),
         languages_optional |-> List(<<sB>>),
         description |-> None]
job5 == [title |-> "j5", company |-> "c5", location |-> "l5", source |-> "ft",
         url |-> "u5",
         skills_hard_required |-> List(<<sA, sB, sAB>>),
         skills_hard_optional |-> List(<<>>),
         skills_soft |-> List(<<sA, sB, sAB>>),
         languages_required |-> List(<<>>),
         languages_optional |-> List(<<>>),
         description |-> sA]
job6 == [title |-> "j6", company |-> "c6", location |-> "l6", source |-> "wttj",
         url |-> "u6",
         skills_hard_required |-> List(<<sA, sB, sB>>),
         skills_hard_optional |-> List(<<>>),
         skills_soft |-> List(<<>>),
         languages_required |-> List(<<>>),
         languages_optional |-> List(<<>>),
         description |-> Empty]
\* a job whose required list repeats one skill 200 times before another one
job7 == [title |-> "j7", company |-> "c7", location |-> "l7", source |-> "ft",
         url |-> "u7",
         skills_hard_required |-> List([i \in 1..201 |-> IF i <= 200 THEN sA ELSE sB]),
         skills_hard_optional |-> List(<<>>),
         skills_soft |-> List(<<>>),
         languages_required |-> List(<<>>),
         languages_optional |-> List(<<>>),
         description |-> Empty]
Jobs == {job1, job2, job3, job4, job5, job6, job7}

\* weights mappings a caller may pass
Dict(f) == [t |-> "dict", v |-> f]
OnlyHardRequired == [hard_required |-> 100]
WithExtraKey == DefaultWeights @@ [bonus |-> 50]
AllOnes ==
    [hard_required |-> 100, hard_optional |-> 100, soft |-> 100,
     languages |-> 100, description |-> 100]
WeightChoices == {None, Dict(OnlyHardRequired), Dict(WithExtraKey), Dict(AllOnes)}

\* skill_threshold in hundredths: the ends 0.50 and the default 0.75
Thresholds == {50, 75}

Options ==
    [use_semantic_skills : BOOLEAN, skill_threshold : Thresholds,
     use_description_semantic : BOOLEAN, weights : WeightChoices]

\* the options the market run is explored with
MarketOptions ==
    [use_semantic_skills : BOOLEAN, skill_threshold : {75},
     use_description_semantic : {TRUE},
     weights : {None, Dict(OnlyHardRequired)}]

\* the rows the market DataFrame is built from
MarketJobs == {job1, job2, job3}

\* the CVs the market run is explored with: the malformed one and a full one
MarketCVs == {cvBad, cv2}

\* the CV-side lists semantic_overlap is called with directly: none, one or
\* two items, some of them to normalize
OverlapCvItems == SeqsUpTo({rA, sB, sAB}, 2)

\* the job-side lists semantic_overlap is called with directly: the short
\* ones, and one of three different items
OverlapJobItems == SeqsUpTo({sA, sB, Num}, MaxTexts) \cup {<<sA, sB, sAB>>}

\* min_score in tenths: the default 40.0 and 70.0
MinScores == {400, 700}

\* ------------------------------------------------------------ state machine
IdleCall == [op |-> "idle"]

\* st.session_state of a browser session: a key is Absent until the script
\* has set it
SessionKeys == {"df", "tmp_csv", "source"}
Absent == [t |-> "absent", v |-> <<>>]

JtInstance == NumThreads + 1
SmInstance == NumThreads + 2

Init ==
    /\ _MODEL = NoModel
    /\ jt_model = NoModel
    /\ sm_model = NoModel
    /\ instances = 0
    /\ embedded = FALSE
    /\ sim \in [Pairs -> SimLevels]
    /\ last = IdleCall
    /\ pc = [t \in Threads |-> "idle"]
    /\ arg = [t \in Threads |-> <<>>]
    /\ got = [t \in Threads |-> NoModel]
    /\ session_state = [k \in SessionKeys |-> Absent]
    /\ tmp_files = {}

\* the process state after a call of the matching module
Apply(P) ==
    /\ _MODEL' = P.model
    /\ instances' = P.instances
    /\ embedded' = P.embedded

\* ---- the main thread calls one function and runs it to completion; r is
\* what the function returns together with the process state it leaves
Coverage(cv_set, job_set) ==
    /\ last = IdleCall
    /\ last' = [op |-> "coverage", cv_set |-> cv_set, job_set |-> job_set,
                out |-> coverage(cv_set, job_set)]
    /\ UNCHANGED <<_MODEL, jt_model, sm_model, instances, embedded, sim, pc, arg, got, dashboard>>

EmbedTexts(texts) ==
    /\ last = IdleCall
    /\ \E r \in {embed_texts(ProcState, texts)} :
           /\ Apply(r.P)
           /\ last' = [op |-> "embed_texts", texts |-> texts, out |-> r.out]
    /\ UNCHANGED <<jt_model, sm_model, sim, pc, arg, got, dashboard>>

SemanticOverlap(cv_items, job_items, threshold) ==
    /\ last = IdleCall
    /\ \E r \in {semantic_overlap(ProcState, cv_items, job_items, threshold * Hundredth)} :
           /\ Apply(r.P)
           /\ last' = [op |-> "semantic_overlap", cv_items |-> cv_items,
                       job_items |-> job_items, threshold |-> threshold,
                       out |-> r.out]
    /\ UNCHANGED <<jt_model, sm_model, sim, pc, arg, got, dashboard>>

SemanticSimilarityText(cv_text, job_text) ==
    /\ last = IdleCall
    /\ \E r \in {semantic_similarity_text(ProcState, cv_text, job_text)} :
           /\ Apply(r.P)
           /\ last' = [op |-> "semantic_similarity_text", cv_text |-> cv_text,
                       job_text |-> job_text, out |-> r.out]
    /\ UNCHANGED <<jt_model, sm_model, sim, pc, arg, got, dashboard>>

MatchCvJob(cv, job, opt) ==
    /\ last = IdleCall
    /\ \E r \in {match_cv_job(ProcState, cv, job, opt)} :
           /\ Apply(r.P)
           /\ last' = [op |-> "match_cv_job", cv |-> cv, job |-> job, opt |-> opt,
                       status |-> r.status, out |-> r.out,
                       sem_calls |-> r.sem_calls]
    /\ UNCHANGED <<jt_model, sm_model, sim, pc, arg, got, dashboard>>

MatchCvMarket(cv, df_jobs, min_score, opt) ==
    /\ last = IdleCall
    /\ \E r \in {match_cv_market(ProcState, cv, df_jobs, min_score, opt)} :
           /\ Apply(r.P)
           /\ last' = [op |-> "match_cv_market", cv |-> cv, df_jobs |-> df_jobs,
                       min_score |-> min_score, opt |-> opt,
                       status |-> r.status, out |-> r.out, evals |-> r.evals]
    /\ UNCHANGED <<jt_model, sm_model, sim, pc, arg, got, dashboard>>

NormText(x) ==
    /\ last = IdleCall
    /\ last' = [op |-> "norm_text", x |-> x, out |-> norm_text(x)]
    /\ UNCHANGED <<_MODEL, jt_model, sm_model, instances, embedded, sim, pc, arg, got, dashboard>>

\* norm_list(x) and to_set(x) of the same value
NormList(x) ==
    /\ last = IdleCall
    /\ last' = [op |-> "norm_list", x |-> x, out |-> norm_list(x), set |-> to_set(x)]
    /\ UNCHANGED <<_MODEL, jt_model, sm_model, instances, embedded, sim, pc, arg, got, dashboard>>

MergeSources(df_wttj, df_ft) ==
    /\ last = IdleCall
    /\ \E r \in {merge_sources(df_wttj, df_ft)} :
           last' = [op |-> "merge_sources", df_wttj |-> df_wttj, df_ft |-> df_ft,
                    status |-> r.status, out |-> r.out]
    /\ UNCHANGED <<_MODEL, jt_model, sm_model, instances, embedded, sim, pc, arg, got, dashboard>>

\* the caller is done with the value returned: nothing is cached
Discard ==
    /\ last # IdleCall
    /\ last' = IdleCall
    /\ UNCHANGED <<_MODEL, jt_model, sm_model, instances, embedded, sim, pc, arg, got, dashboard>>

\* "from analysis.job_titles import ...": the module body constructs its model
ImportJobTitles ==
    /\ last = IdleCall
    /\ jt_model = NoModel
    /\ jt_model' = JtInstance
    /\ instances' = instances + 1
    /\ UNCHANGED <<_MODEL, sm_model, embedded, sim, last, pc, arg, got, dashboard>>

\* "import analysis.semantic_matching": the module body constructs its model
ImportSemanticMatching ==
    /\ last = IdleCall
    /\ sm_model = NoModel
    /\ sm_model' = SmInstance
    /\ instances' = instances + 1
    /\ UNCHANGED <<_MODEL, jt_model, embedded, sim, last, pc, arg, got, dashboard>>

\* analysis/semantic_matching.py, semantic_overlap(cv_skills, job_skills,
\* threshold): it encodes with the model its module constructed at import,
\* does not normalize, and returns coverage 0.0 with missing = job_skills as
\* soon as either list is empty
semantic_matching_semantic_overlap(cv_skills, job_skills, threshold) ==
    IF cv_skills = <<>> \/ job_skills = <<>>
    THEN [encoded |-> FALSE,
          out |-> [matched |-> <<>>, missing |-> job_skills, coverage |-> 0]]
    ELSE LET matched == Filter(job_skills, cv_skills, threshold, TRUE)
             missing == Filter(job_skills, cv_skills, threshold, FALSE)
             cov == (Len(matched) * Unit) \div Len(job_skills)
         IN  [encoded |-> TRUE,
              out |-> [matched |-> matched, missing |-> missing,
                       coverage |-> Round2(cov) * Hundredth]]

\* a call of semantic_matching.semantic_overlap, once the module is imported
SemanticMatchingOverlap(cv_skills, job_skills, threshold) ==
    /\ last = IdleCall
    /\ sm_model # NoModel
    /\ \E r \in {semantic_matching_semantic_overlap(cv_skills, job_skills,
                                                    threshold * Hundredth)} :
           last' = [op |-> "semantic_matching.semantic_overlap",
                    cv_skills |-> cv_skills, job_skills |-> job_skills,
                    threshold |-> threshold, encoded |-> r.encoded, out |-> r.out]
    /\ UNCHANGED <<_MODEL, jt_model, sm_model, instances, embedded, sim, pc, arg, got,
                   dashboard>>

\* already-normalized lists of skills
NormalizedLists == SeqsUpTo({sA, sB}, MaxTexts)

\* the matching functions, over the full input sets
Next ==
    \/ \E cv_set \in SUBSET Vocab, job_set \in SUBSET Vocab : Coverage(cv_set, job_set)
    \/ \E texts \in SeqsUpTo(Vocab, MaxTexts) : EmbedTexts(texts)
    \/ \E cv_items \in OverlapCvItems,
          job_items \in OverlapJobItems,
          threshold \in Thresholds :
            SemanticOverlap(cv_items, job_items, threshold)
    \/ \E cv_text \in {sA, rAB, Blank, None}, job_text \in {sA, sB, Empty} :
            SemanticSimilarityText(cv_text, job_text)
    \/ \E cv \in CVs, job \in Jobs, opt \in Options : MatchCvJob(cv, job, opt)
    \/ \E cv \in MarketCVs, df_jobs \in SeqsUpTo(MarketJobs, MaxJobs),
          min_score \in MinScores, opt \in MarketOptions :
            MatchCvMarket(cv, df_jobs, min_score, opt)
    \/ Discard

Spec == Init /\ [][Next]_vars


\* the whole process: the dashboard's calls into the matching module and the
\* imports of the two other modules that embed, over a few inputs per call
NextProcess ==
    \/ \E texts \in {<<>>, <<sA>>} : EmbedTexts(texts)
    \/ \E cv_items \in {<<>>, <<rA>>}, job_items \in {<<>>, <<sB>>} :
            SemanticOverlap(cv_items, job_items, 75)
    \/ \E cv_text \in {sA, Blank}, job_text \in {sB, Empty} :
            SemanticSimilarityText(cv_text, job_text)
    \/ \E cv \in CVs, job \in Jobs, opt \in MarketOptions : MatchCvJob(cv, job, opt)
    \/ \E df_jobs \in SeqsUpTo({job1, job2}, MaxJobs),
          min_score \in MinScores, opt \in MarketOptions :
            MatchCvMarket(cv1, df_jobs, min_score, opt)
    \/ Discard
    \/ ImportJobTitles
    \/ ImportSemanticMatching
    \/ \E cv_skills \in NormalizedLists, job_skills \in NormalizedLists,
          threshold \in Thresholds :
            SemanticMatchingOverlap(cv_skills, job_skills, threshold)

SpecProcess == Init /\ [][NextProcess]_vars

\* ------------------------------------------- threads inside the provider
\* Several threads of the host call embed_texts / embed_text; get_model has
\* no lock, so its steps interleave: the test of the global, the construction
\* of the model, the store into the global, the load of the global for the
\* return value.  The instance a thread constructs is named after the thread.

\* a thread enters embed_texts(texts): an empty list returns at once
T_EmbedTexts(t, texts) ==
    /\ pc[t] = "idle"
    /\ arg' = [arg EXCEPT ![t] = texts]
    /\ pc' = [pc EXCEPT ![t] = IF texts = <<>> THEN "idle" ELSE "test"]
    /\ UNCHANGED <<_MODEL, jt_model, sm_model, instances, embedded, sim, last, got, dashboard>>

\* a thread enters embed_text(text): always goes to get_model
T_EmbedText(t, text) ==
    /\ pc[t] = "idle"
    /\ arg' = [arg EXCEPT ![t] = <<text>>]
    /\ pc' = [pc EXCEPT ![t] = "test"]
    /\ UNCHANGED <<_MODEL, jt_model, sm_model, instances, embedded, sim, last, got, dashboard>>

\* "if _MODEL is None"
T_Test(t) ==
    /\ pc[t] = "test"
    /\ pc' = [pc EXCEPT ![t] = IF _MODEL = NoModel THEN "construct" ELSE "return"]
    /\ UNCHANGED <<_MODEL, jt_model, sm_model, instances, embedded, sim, last, arg, got, dashboard>>

\* "SentenceTransformer(MODEL_NAME)"
T_Construct(t) ==
    /\ pc[t] = "construct"
    /\ instances' = instances + 1
    /\ pc' = [pc EXCEPT ![t] = "store"]
    /\ UNCHANGED <<_MODEL, jt_model, sm_model, embedded, sim, last, arg, got, dashboard>>

\* "_MODEL = ..."
T_Store(t) ==
    /\ pc[t] = "store"
    /\ _MODEL' = t
    /\ pc' = [pc EXCEPT ![t] = "return"]
    /\ UNCHANGED <<jt_model, sm_model, instances, embedded, sim, last, arg, got, dashboard>>

\* "return _MODEL"
T_Return(t) ==
    /\ pc[t] = "return"
    /\ got' = [got EXCEPT ![t] = _MODEL]
    /\ pc' = [pc EXCEPT ![t] = "encode"]
    /\ UNCHANGED <<_MODEL, jt_model, sm_model, instances, embedded, sim, last, arg, dashboard>>

\* "model.encode(texts, normalize_embeddings=True)" on the instance returned
T_Encode(t) ==
    /\ pc[t] = "encode"
    /\ embedded' = TRUE
    /\ pc' = [pc EXCEPT ![t] = "idle"]
    /\ UNCHANGED <<_MODEL, jt_model, sm_model, instances, sim, last, arg, got, dashboard>>

\* what the threads are asked to embed (the steps do not depend on the texts
\* beyond the list being empty or not)
ThreadTexts == {<<>>, <<sA, sB>>}

NextThreads ==
    \/ \E t \in Threads, texts \in ThreadTexts : T_EmbedTexts(t, texts)
    \/ \E t \in Threads, text \in {sA} : T_EmbedText(t, text)
    \/ \E t \in Threads : T_Test(t)
    \/ \E t \in Threads : T_Construct(t)
    \/ \E t \in Threads : T_Store(t)
    \/ \E t \in Threads : T_Return(t)
    \/ \E t \in Threads : T_Encode(t)

\* the thread steps never consult the provider's similarities: one provider
InitThreads == Init /\ \A p \in Pairs : sim[p] = 7496

SpecThreads == InitThreads /\ [][NextThreads]_vars


\* --------------------------------------------------------- normalization
\* the normalization functions called directly on arbitrary values; they
\* never consult the provider, so one provider is enough
NextNormalize ==
    \/ \E x \in RawTexts : NormText(x)
    \/ \E x \in RawLists : NormList(x)
    \/ Discard

SpecNormalize == InitThreads /\ [][NextNormalize]_vars


\* ---------------------------------------------------------- preprocessing
\* build_dataset: the raw frames of the two sources are merged
NextPreprocess ==
    \/ \E df_wttj \in WttjFrames, df_ft \in FtFrames : MergeSources(df_wttj, df_ft)
    \/ Discard

SpecPreprocess == InitThreads /\ [][NextPreprocess]_vars


\* ------------------------------------------------- France Travail collection
\* The API's side of fetch_all_ft_offers is the sequence of its answers:
\* pages[k] is the number of offers in the answer to the k-th request, or
\* ApiError when the answer carries an HTTP error status; past the last
\* answer the API has nothing more to give.
ApiError == 0 - 1

PageOf(pages, k) == IF k <= Len(pages) THEN pages[k] ELSE 0

\* the offers of one answer, named by their positions in the requested range
Resultats(start, n) == [i \in 1..n |-> start + i - 1]

\* the while loop: requests counts the requests sent so far
RECURSIVE FetchLoop(_, _, _, _, _, _)
FetchLoop(pages, step, max_results, start, all_results, requests) ==
    IF ~(start < max_results)
    THEN [status |-> "ok", out |-> all_results, requests |-> requests]
    ELSE LET n == PageOf(pages, requests + 1)
         IN  IF n = ApiError
             THEN [status |-> "HTTPError", out |-> <<>>, requests |-> requests + 1]
             ELSE IF n = 0
             THEN [status |-> "ok", out |-> all_results, requests |-> requests + 1]
             ELSE IF n < step
             THEN [status |-> "ok", out |-> all_results \o Resultats(start, n),
                   requests |-> requests + 1]
             ELSE FetchLoop(pages, step, max_results, start + step,
                            all_results \o Resultats(start, n), requests + 1)

fetch_all_ft_offers(pages, step, max_results) ==
    FetchLoop(pages, step, max_results, 0, <<>>, 0)

\* a call of fetch_all_ft_offers against an API that never answers with
\* more offers than the range asked for
FetchAllFtOffers(pages, step, max_results) ==
    /\ last = IdleCall
    /\ \A k \in 1..Len(pages) : pages[k] <= step
    /\ \E r \in {fetch_all_ft_offers(pages, step, max_results)} :
           last' = [op |-> "fetch_all_ft_offers", pages |-> pages, step |-> step,
                    max_results |-> max_results, status |-> r.status,
                    out |-> r.out, requests |-> r.requests]
    /\ UNCHANGED <<_MODEL, jt_model, sm_model, instances, embedded, sim, pc, arg, got, dashboard>>

NextCollect ==
    \/ \E pages \in SeqsUpTo(ApiError..MaxStep, MaxPages),
          step \in 1..MaxStep, max_results \in 0..MaxResults :
            FetchAllFtOffers(pages, step, max_results)
    \/ Discard

SpecCollect == InitThreads /\ [][NextCollect]_vars


\* ---------------------------------------------------------- related titles
\* analysis/job_titles.py.  normalize_title: "" for a non-string; else lower
\* case, every character that is neither a letter nor whitespace replaced by
\* a space, whitespace runs collapsed, stripped.  Titles carry no
\* parentheses.
Letters == {"a", "b"}

LettersOnly(s) == [i \in 1..Len(s) |-> IF s[i] \in Letters \cup Whitespace
                                       THEN s[i] ELSE " "]

normalize_title(title) ==
    IF ~IsStr(title) THEN Str(<<>>)
    ELSE Str(Strip(CollapseWs(LettersOnly(Lower(title.v)))))

\* Counter(df["title_clean"]): the distinct titles in order of first
\* occurrence, and the number of occurrences of one of them
unique_titles(clean) ==
    LET First(i) == \A j \in 1..(i - 1) : clean[j] # clean[i]
        idx == SelectSeq([i \in 1..Len(clean) |-> i], First)
    IN  [k \in 1..Len(idx) |-> clean[idx[k]]]

title_counts(clean, title) == Cardinality({i \in 1..Len(clean) : clean[i] = title})

\* the loop of lines 72-78: one row per title that passes the filter
RelatedResults(clean, query_clean, min_similarity) ==
    LET Passes(title) == /\ cosine_similarity(query_clean, title) >= min_similarity
                         /\ title # query_clean
        kept == SelectSeq(unique_titles(clean), Passes)
    IN  [k \in 1..Len(kept) |->
            [job_title |-> kept[k],
             similarity |-> Round3(cosine_similarity(query_clean, kept[k])),
             nb_offres |-> title_counts(clean, kept[k])]]

\* sort_values(["similarity", "nb_offres"], ascending=False): a row goes
\* before the rows it is strictly greater than
TitleRowGreater(r, q) ==
    \/ r.similarity > q.similarity
    \/ r.similarity = q.similarity /\ r.nb_offres > q.nb_offres

RECURSIVE InsertTitleRow(_, _)
InsertTitleRow(r, rows) ==
    IF rows = <<>> THEN <<r>>
    ELSE IF TitleRowGreater(r, Head(rows)) THEN <<r>> \o rows
    ELSE <<Head(rows)>> \o InsertTitleRow(r, Tail(rows))

RECURSIVE SortTitleRows(_)
SortTitleRows(rows) ==
    IF rows = <<>> THEN <<>>
    ELSE InsertTitleRow(rows[Len(rows)], SortTitleRows(SubSeq(rows, 1, Len(rows) - 1)))

\* find_related_job_titles(df, query_title, top_n, min_similarity), df given
\* by its title column.  A frame built from no row has no column, and
\* sorting it by "similarity" raises KeyError.
find_related_job_titles(df, query_title, top_n, min_similarity) ==
    LET clean == [i \in 1..Len(df) |-> normalize_title(df[i])]
    IN  IF clean = <<>> THEN [status |-> "ok", out |-> <<>>]
        ELSE LET results == RelatedResults(clean, normalize_title(query_title),
                                           min_similarity)
                 ranked == SortTitleRows(results)
             IN  IF results = <<>>
                 THEN [status |-> "KeyError", out |-> <<>>]
                 ELSE [status |-> "ok",
                       out |-> SubSeq(ranked, 1, IF top_n < Len(ranked) THEN top_n
                                                 ELSE Len(ranked))]

\* the "related titles" tab: the import of analysis.job_titles, which
\* constructs the module's model the first time, then the call
FindRelatedJobTitles(df, query_title, top_n, min_similarity) ==
    /\ last = IdleCall
    /\ jt_model' = JtInstance
    /\ instances' = IF jt_model = NoModel THEN instances + 1 ELSE instances
    /\ \E r \in {find_related_job_titles(df, query_title, top_n,
                                         min_similarity * Hundredth)} :
           last' = [op |-> "find_related_job_titles", df |-> df,
                    query_title |-> query_title, top_n |-> top_n,
                    min_similarity |-> min_similarity,
                    status |-> r.status, out |-> r.out]
    /\ UNCHANGED <<_MODEL, sm_model, embedded, sim, pc, arg, got, dashboard>>

\* min_similarity in hundredths: the default 0.70, and 0.75
MinSimilarities == {70, 75}

NextTitles ==
    \/ \E df \in SeqsUpTo({sA, rA, sB, sAB}, MaxRows), query_title \in {sA, rAB},
          top_n \in 1..MaxRows, min_similarity \in MinSimilarities :
            FindRelatedJobTitles(df, query_title, top_n, min_similarity)
    \/ Discard

SpecTitles == Init /\ [][NextTitles]_vars


\* ------------------------------------------------------------- dashboard
\* One action is one run of the script app.py, from its first line to the
\* st.stop(), st.rerun(), uncaught exception or last line that ends it.
\* File operations in the temporary directory succeed.

\* the options of the "Source des offres" radio
FranceTravail == "France Travail"
Wttj == "Welcome to the Jungle"
Sources == {FranceTravail, Wttj}

\* the options of the Mode selectbox (accents dropped)
LiveMode == "Live (API/Selenium)"
CsvMode == "Telecharger un CSV"
ModeOptions == {LiveMode, CsvMode}

\* the mode the form tests before it renders the file uploader
UploaderShown(mode) == mode = "Telecharger snapshot CSV"

\* the mode the submit handler tests before it reads the uploaded file
UploadMode(mode) == mode = "Upload snapshot CSV (preprocesse)"

\* the source stored in the session, and the path of a snapshot file
Label(source) == [t |-> "label", v |-> source]
Path(tag, ts) == [t |-> "path", v |-> <<tag, ts>>]

\* the file the user put in the uploader
UploadedCsv == [t |-> "upload", v |-> <<>>]

\* Session init: the keys not yet in the session are set to None
SessionInit(s) == [k \in SessionKeys |-> IF s[k] = Absent THEN None ELSE s[k]]

\* the reset without the source
Cleared_KeepsSource(s) == [s EXCEPT !.tmp_csv = None, !.df = None]

\* tmp_csv, df and source set to None
Cleared(s) == [s EXCEPT !.tmp_csv = None, !.df = None, !.source = None]

\* _safe_remove(path)
safe_remove(files, path) == files \ {path}

\* the form's values for the France Travail request, in pages of one offer
FtStep == 1
FtMax == 2

\* the loading part of the submit handler: what it collected from, and the
\* dataset it loaded or the reason it ended the run
Load(source, mode, uploaded, token, pages, wttj) ==
    IF UploadMode(mode)
    THEN IF uploaded = None
         THEN [end |-> "stop: no upload", collected |-> {}, df |-> None]
         ELSE [end |-> "loaded", collected |-> {}, df |-> Frame(<<uploaded>>)]
    ELSE IF source = FranceTravail
    THEN IF token = "KeyError"
         THEN [end |-> "stop: no credentials", collected |-> {}, df |-> None]
         ELSE LET df_raw == fetch_all_ft_offers(pages, FtStep, FtMax)
              IN  IF df_raw.status # "ok"
                  THEN [end |-> "exception", collected |-> {"ft"}, df |-> None]
                  ELSE IF df_raw.out = <<>>
                  THEN [end |-> "stop: no offers", collected |-> {"ft"}, df |-> None]
                  ELSE [end |-> "loaded", collected |-> {"ft"},
                        df |-> Frame(df_raw.out)]
    ELSE IF wttj = "no keywords"
    THEN [end |-> "stop: no keywords", collected |-> {}, df |-> None]
    ELSE IF wttj = "error"
    THEN [end |-> "stop: scraper error", collected |-> {"wttj"}, df |-> None]
    ELSE IF wttj = "empty"
    THEN [end |-> "stop: no offers", collected |-> {"wttj"}, df |-> None]
    ELSE [end |-> "loaded", collected |-> {"wttj"}, df |-> Frame(<<wttj>>)]

\* "Handle submit": reset, load, snapshot to a temporary CSV, store, rerun
HandleSubmit(s, files, source, mode, uploaded, token, pages, wttj, ts) ==
    LET reset == Cleared(s)
        removed == safe_remove(files, s.tmp_csv)
        load == Load(source, mode, uploaded, token, pages, wttj)
        tmp_path == Path(IF source = FranceTravail THEN "ft" ELSE "wttj", ts)
    IN  IF load.end # "loaded"
        THEN [session |-> reset, files |-> removed, end |-> load.end,
              collected |-> load.collected]
        ELSE [session |-> [tmp_csv |-> tmp_path, df |-> load.df,
                           source |-> Label(source)],
              files |-> removed \cup {tmp_path}, end |-> "rerun",
              collected |-> load.collected]

\* the script from the session init to its end; click is the button that
\* triggered the run, if any
Script(s0, files, source, mode, click, uploaded, token, pages, wttj, ts) ==
    LET s == SessionInit(s0)
    IN  IF click = "clear"
        THEN [session |-> Cleared(s), files |-> safe_remove(files, s.tmp_csv),
              end |-> "rerun", collected |-> {}]
        ELSE IF click = "submit"
        THEN HandleSubmit(s, files, source, mode, uploaded, token, pages, wttj, ts)
        ELSE [session |-> s, files |-> files,
              end |-> IF s.df = None THEN "stop: no data" ELSE "tabs",
              collected |-> {}]

\* one run of the script.  expired are the snapshot files _cleanup_old_tmp
\* finds older than the time to live; the clear button exists only while
\* the session holds a snapshot, and only a rendered uploader holds a file.
ScriptRun(source, mode, click, uploaded, token, pages, wttj, ts, expired) ==
    /\ last = IdleCall
    /\ click = "clear" => session_state.tmp_csv \notin {Absent, None}
    /\ uploaded # None => UploaderShown(mode)
    /\ \E r \in {Script(session_state, tmp_files \ expired, source, mode, click,
                         uploaded, token, pages, wttj, ts)} :
           /\ session_state' = r.session
           /\ tmp_files' = r.files
           /\ last' = [op |-> "script_run", source |-> source, mode |-> mode,
                       click |-> click, uploader |-> UploaderShown(mode),
                       before |-> session_state.tmp_csv,
                       end |-> r.end, collected |-> r.collected]
    /\ UNCHANGED <<_MODEL, jt_model, sm_model, instances, embedded, sim, pc, arg, got>>

\* the user reads the page: the next run can start
NextDashboard ==
    \/ \E source \in Sources, mode \in ModeOptions,
          click \in {"none", "submit", "clear"}, uploaded \in {None, UploadedCsv},
          token \in {"ok", "KeyError"}, pages \in {<<>>, <<ApiError>>, <<1>>},
          wttj \in {"no keywords", "error", "empty", "rows"},
          ts \in 1..MaxStamps, expired \in SUBSET tmp_files :
            ScriptRun(source, mode, click, uploaded, token, pages, wttj, ts, expired)
    \/ Discard

SpecDashboard == InitThreads /\ [][NextDashboard]_vars


\* ================================================================== claims
\* ---- C1
\* C1: coverage(cv_set, job_set) returns exactly 1.0 whenever job_set is
\* empty, for every cv_set, the empty one included.
C1_CoverageEmptyRequirement ==
    (last.op = "coverage" /\ last.job_set = {}) => last.out = Unit

\* coverage({}, {}) has been called and returned 1.0
C1_Witness ==
    last.op = "coverage" /\ last.job_set = {} /\ last.cv_set = {} /\ last.out = Unit

\* ---- C2
\* C2: for a non-empty requirement set R and any candidate set S,
\* coverage(S, R) = |S \cap R| / |R|, which lies in [0, 1], and
\* coverage({}, R) = 0.0.
C2_CoverageIsFraction ==
    (last.op = "coverage" /\ last.job_set # {}) =>
        /\ last.out * Cardinality(last.job_set)
             = Cardinality(last.cv_set \cap last.job_set) * Unit
        /\ 0 <= last.out /\ last.out <= Unit
        /\ last.cv_set = {} => last.out = 0

\* a call with a partial overlap: S = {a, b}, R = {a, "a b"} gives 1/2
C2_Witness ==
    /\ last.op = "coverage"
    /\ last.cv_set = {sA, sB}
    /\ last.job_set = {sA, sAB}
    /\ 2 * last.out = Unit

\* ---- C3
\* the sum of the values of a weights mapping, in hundredths
RECURSIVE SumOver(_, _)
SumOver(w, keys) ==
    IF keys = {} THEN 0
    ELSE LET k == CHOOSE x \in keys : TRUE
         IN  w[k] + SumOver(w, keys \ {k})

\* C3: for every CV, job and options, the score returned by match_cv_job
\* lies in [0, 100 * sum(weights.values())].
C3_ScoreWithinWeightSum ==
    (last.op = "match_cv_job" /\ last.status = "ok") =>
        /\ 0 <= last.out.score
        /\ last.out.score
             <= 10 * SumOver(last.out.weights, DOMAIN last.out.weights)

\* ---- C4
\* every normalized hard-required item of the job is in the CV's hard skills
FullHardRequired(cv, job) ==
    to_set(Get(job, "skills_hard_required", None))
        \subseteq to_set(Get(cv, "skills_hard", None))

\* C4: with weights = {"hard_required": 1.0} (the other categories absent)
\* and full hard-required coverage, match_cv_job returns a score, and the
\* score is 100.0.
C4_PartialWeightsScore ==
    ( /\ last.op = "match_cv_job"
      /\ last.opt.weights.t = "dict"
      /\ DOMAIN last.opt.weights.v = {"hard_required"}
      /\ FullHardRequired(last.cv, last.job) ) =>
        (last.status = "ok" /\ last.out.score = 1000)

\* ---- C5
\* the CV-side and job-side raw fields of the three categories that may get
\* the semantic fallback
FallbackFields ==
    [hard_required |-> <<"skills_hard", "skills_hard_required">>,
     hard_optional |-> <<"skills_hard", "skills_hard_optional">>,
     languages |-> <<"languages", "languages_required">>]

\* |job \cap cv| = |job| on the normalized sets of category c
ExactlyCovered(cv, job, c) ==
    LET cv_set == to_set(Get(cv, FallbackFields[c][1], None))
        job_set == to_set(Get(job, FallbackFields[c][2], None))
    IN  Cardinality(cv_set \cap job_set) = Cardinality(job_set)

\* C5: match_cv_job never invokes semantic_overlap for a category whose
\* exact coverage is already 1.0, whatever use_semantic_skills is.
C5_NoFallbackWhenCovered ==
    last.op = "match_cv_job" =>
        \A c \in DOMAIN FallbackFields :
            ExactlyCovered(last.cv, last.job, c) => c \notin last.sem_calls

\* a match with the fallback enabled where the hard-required items are all
\* literally present (no fallback) while the hard-optional one is not
C5_Witness ==
    /\ last.op = "match_cv_job"
    /\ last.opt.use_semantic_skills
    /\ last.cv = cv2 /\ last.job = job1
    /\ ExactlyCovered(last.cv, last.job, "hard_required")
    /\ last.sem_calls = {"hard_optional"}

\* ---- C6
\* C6: with several threads calling into the provider before the model is
\* loaded, the model is instantiated exactly once and every caller uses
\* that one instance.
C6_OneInstanceAcrossThreads ==
    /\ instances <= 1
    /\ \A t \in Threads, u \in Threads :
         (got[t] # NoModel /\ got[u] # NoModel) => got[t] = got[u]

\* ---- C7
\* matching cv against job has a non-empty input to embed: a fallback
\* category with items on both sides, or two non-empty texts
RECURSIVE AnyJobEmbeds(_, _, _)
JobEmbeds(cv, job, opt) ==
    \/ /\ opt.use_semantic_skills
       /\ \E c \in DOMAIN FallbackFields :
            /\ norm_list(Get(cv, FallbackFields[c][1], None)) # <<>>
            /\ norm_list(Get(job, FallbackFields[c][2], None)) # <<>>
    \/ /\ opt.use_description_semantic
       /\ Truthy(norm_text(Get(cv, "text", Empty)))
       /\ Truthy(norm_text(Get(job, "description", Empty)))
\* some job of the list has
AnyJobEmbeds(cv, jobs, opt) ==
    /\ jobs # <<>>
    /\ (JobEmbeds(cv, Head(jobs), opt) \/ AnyJobEmbeds(cv, Tail(jobs), opt))
\* the call recorded in c has a non-empty input to embed
CallEmbeds(c) ==
    CASE c.op = "embed_texts" -> c.texts # <<>>
      [] c.op = "semantic_overlap" ->
            NormElems(c.cv_items) # <<>> /\ NormElems(c.job_items) # <<>>
      [] c.op = "semantic_similarity_text" ->
            Truthy(norm_text(c.cv_text)) /\ Truthy(norm_text(c.job_text))
      [] c.op = "match_cv_job" -> JobEmbeds(c.cv, c.job, c.opt)
      [] c.op = "match_cv_market" -> AnyJobEmbeds(c.cv, c.df_jobs, c.opt)
      [] OTHER -> FALSE

\* C7: in a single-threaded process, over any sequence of calls, the model
\* is constructed at most once, only by a call that has a non-empty input to
\* embed, and it is never replaced; embed_texts([]) returns an empty result
\* and leaves the model alone.
C7_LazyLoadedOnce ==
    [][ /\ instances' <= 1
        /\ instances' # instances => (_MODEL = NoModel /\ _MODEL' # NoModel)
        /\ _MODEL' # _MODEL => (_MODEL = NoModel /\ CallEmbeds(last'))
        /\ (last'.op = "embed_texts" /\ last'.texts = <<>>) =>
              (last'.out = <<>> /\ _MODEL' = _MODEL) ]_vars

\* the model was constructed by an earlier call, and embed_texts([]) has
\* then been called
C7_Witness ==
    /\ _MODEL # NoModel /\ instances = 1 /\ embedded
    /\ last.op = "embed_texts" /\ last.texts = <<>> /\ last.out = <<>>

\* ---- C8
\* the model instances the process holds
LoadedModels == {_MODEL, jt_model, sm_model} \ {NoModel}

\* C8: the process never holds two loaded embedding models: every embedding
\* comes from one shared instance.
C8_SingleSharedModel == Cardinality(LoadedModels) <= 1

\* ---- C10
\* the number of returned rows whose job_title is title
RECURSIVE CountRows(_, _)
CountRows(rows, title) ==
    IF rows = <<>> THEN 0
    ELSE (IF Head(rows).job_title = title THEN 1 ELSE 0) + CountRows(Tail(rows), title)

\* the number of input rows that are job, counted only when the score of
\* job reaches min_score
RECURSIVE CountQualifying(_, _, _, _, _)
CountQualifying(cv, jobs, job, min_score, opt) ==
    IF jobs = <<>> THEN 0
    ELSE (IF /\ Head(jobs) = job
             /\ match_cv_job(ProcState, cv, job, opt).out.score >= min_score
          THEN 1 ELSE 0)
         + CountQualifying(cv, Tail(jobs), job, min_score, opt)

\* row a may stand before row b in a descending order of
\* (score, hard_required_coverage, description_similarity)
DescendingPair(a, b) ==
    \/ a.score > b.score
    \/ a.score = b.score /\ a.hard_required_coverage > b.hard_required_coverage
    \/ /\ a.score = b.score
       /\ a.hard_required_coverage = b.hard_required_coverage
       /\ a.description_similarity >= b.description_similarity

NoneQualifies(cv, jobs, min_score, opt) ==
    \A i \in 1..Len(jobs) :
        \E m \in {match_cv_job(ProcState, cv, jobs[i], opt)} :
            m.status = "ok" /\ m.out.score < min_score

\* C11: match_cv_market returns an empty result container and raises no
\* exception when the job collection is empty and when no job reaches
\* min_score.
C11_EmptyResultNoError ==
    ( /\ last.op = "match_cv_market"
      /\ NoneQualifies(last.cv, last.df_jobs, last.min_score, last.opt) ) =>
        (last.status = "ok" /\ last.out = <<>>)

\* two jobs were matched and scored, neither reached min_score, and the
\* call returned the empty container
C11_Witness ==
    /\ last.op = "match_cv_market"
    /\ Len(last.df_jobs) = 2
    /\ NoneQualifies(last.cv, last.df_jobs, last.min_score, last.opt)
    /\ last.status = "ok" /\ last.out = <<>>

\* ---- C12
\* the coverage match_cv_job weights for category c of FallbackFields: the
\* fallback's when the fallback is enabled and some job item is not
\* literally in the CV, else the exact one
CategoryCoverage(cv, job, opt, c) ==
    LET cv_list == norm_list(Get(cv, FallbackFields[c][1], None))
        job_list == norm_list(Get(job, FallbackFields[c][2], None))
    IN  IF /\ opt.use_semantic_skills
           /\ \E i \in 1..Len(job_list) : job_list[i] \notin SetOf(cv_list)
        THEN semantic_overlap(ProcState, cv_list, job_list,
                              opt.skill_threshold * Hundredth).out.coverage
        ELSE coverage(SetOf(cv_list), SetOf(job_list))

\* the description similarity match_cv_job weights
DescriptionSimilarity(cv, job, opt) ==
    IF opt.use_description_semantic
    THEN semantic_similarity_text(ProcState, Get(cv, "text", Empty),
                                  Get(job, "description", Empty)).out
    ELSE 0

\* the sum of weight * coverage over the five categories, the weights w
\* (hundredths) taken as they are
FiveCategorySum(cv, job, opt, w) ==
    w["hard_required"] * CategoryCoverage(cv, job, opt, "hard_required")
    + w["hard_optional"] * CategoryCoverage(cv, job, opt, "hard_optional")
    + w["soft"] * coverage(to_set(Get(cv, "skills_soft", None)),
                           to_set(Get(job, "skills_soft", None)))
    + w["languages"] * CategoryCoverage(cv, job, opt, "languages")
    + w["description"] * DescriptionSimilarity(cv, job, opt)

\* score (tenths) is a nearest tenth of 100 * total, total being sum / 100
\* in fixed-point
NearestTenth(score, sum) ==
    /\ 2 * (score * Unit - 10 * sum) <= Unit
    /\ 2 * (10 * sum - score * Unit) <= Unit

\* C12: the score of match_cv_job is 100 * (the sum over the five
\* categories of weight * coverage, the description similarity included)
\* rounded to one decimal, with the caller's weights as given, not
\* renormalized; other keys of the weights mapping do not change it.
C12_ScoreIsWeightedSum ==
    (last.op = "match_cv_job" /\ last.status = "ok") =>
        NearestTenth(last.out.score,
                     FiveCategorySum(last.cv, last.job, last.opt,
                                     IF last.opt.weights.t = "none" THEN DefaultWeights
                                     ELSE [k \in WeightKeys |-> last.opt.weights.v[k]]))

\* weights that sum to 5.0 and coverages of one third: the score is 366.7,
\* above 100
C12_Witness ==
    /\ last.op = "match_cv_job" /\ last.status = "ok"
    /\ last.opt.weights = Dict(AllOnes)
    /\ last.cv = cv1 /\ last.job = job5
    /\ last.out.score = 3667

\* ---- C13
\* the CV field, the job field and the reported coverage of each category
CategoryFields ==
    [hard_required |-> <<"skills_hard", "skills_hard_required", "hard_required_coverage">>,
     hard_optional |-> <<"skills_hard", "skills_hard_optional", "hard_optional_coverage">>,
     soft |-> <<"skills_soft", "skills_soft", "soft_coverage">>,
     languages |-> <<"languages", "languages_required", "languages_required_coverage">>]

\* the field key of d holds nothing usable: it is missing, is not a list, or
\* is a list with no string that has a non-whitespace character
NothingUsable(d, key) ==
    LET x == Get(d, key, None)
    IN  \/ ~IsList(x)
        \/ \A i \in 1..Len(x.v) :
             \/ ~IsStr(x.v[i])
             \/ \A j \in 1..Len(x.v[i].v) : x.v[i].v[j] \in Whitespace

\* C13: with default weights match_cv_job does not raise, whatever the
\* fields hold (missing, None, a number, a string for a list, a list with
\* non-strings); a field with nothing usable counts as empty: coverage 1.0
\* for an empty job side, 0.0 for an empty CV side against a non-empty job
\* side, description similarity 0.0 for a text or description that is not a
\* string.
C13_MalformedFieldsAreEmpty ==
    (last.op = "match_cv_job" /\ last.opt.weights.t = "none") =>
        /\ last.status = "ok"
        /\ \A c \in DOMAIN CategoryFields :
             /\ NothingUsable(last.job, CategoryFields[c][2])
                  => last.out[CategoryFields[c][3]] = 100
             /\ ( /\ NothingUsable(last.cv, CategoryFields[c][1])
                  /\ ~NothingUsable(last.job, CategoryFields[c][2]) )
                  => last.out[CategoryFields[c][3]] = 0
        /\ ( \/ ~IsStr(Get(last.cv, "text", None))
             \/ ~IsStr(Get(last.job, "description", None)) )
             => last.out.description_similarity = 0

\* the CV with a string for skills_hard, a number for languages and no
\* skills_soft, against the job with None for the required skills, a string
\* for the soft skills and None for the description
C13_Witness ==
    /\ last.op = "match_cv_job" /\ last.opt.weights.t = "none"
    /\ last.cv = cvBad /\ last.job = job4
    /\ last.status = "ok"
    /\ last.out.hard_required_coverage = 100
    /\ last.out.hard_optional_coverage = 0
    /\ last.out.languages_required_coverage = 0
    /\ last.out.description_similarity = 0

\* ---- C14
\* C14: normalization is idempotent: norm_text of a result of norm_text,
\* norm_list of a result of norm_list and to_set of the elements of a result
\* of to_set give that result again.
C14_NormalizationIdempotent ==
    /\ last.op = "norm_text" => norm_text(last.out) = last.out
    /\ last.op = "norm_list" =>
         /\ norm_list(List(last.out)) = last.out
         /\ to_set(List(Sorted(last.set))) = last.set

\* a string that normalization changes (a capital, a tab and a space in a
\* row) has been normalized
C14_Witness ==
    last.op = "norm_text" /\ last.x = rAB /\ last.out = sAB

\* ---- C15
\* e is a non-empty lowercase string without leading or trailing whitespace
\* and without two whitespace characters in a row
Canonical(e) ==
    /\ IsStr(e)
    /\ e.v # <<>>
    /\ \A j \in 1..Len(e.v) : e.v[j] \notin {"A", "B"}
    /\ e.v[1] \notin Whitespace
    /\ e.v[Len(e.v)] \notin Whitespace
    /\ \A j \in 1..(Len(e.v) - 1) :
         ~(e.v[j] \in Whitespace /\ e.v[j + 1] \in Whitespace)

\* C15: norm_list and to_set return, for any value, only non-empty
\* lowercase strings with no leading or trailing whitespace and no run of
\* whitespace; a value that is not a list gives the empty result, and list
\* elements that are not strings are dropped.
C15_NormListCanonical ==
    last.op = "norm_list" =>
        /\ \A i \in 1..Len(last.out) : Canonical(last.out[i])
        /\ \A e \in last.set : Canonical(e)
        /\ ~IsList(last.x) => (last.out = <<>> /\ last.set = {})
        /\ IsList(last.x) =>
             Len(last.out) <= Cardinality({i \in 1..Len(last.x.v) : IsStr(last.x.v[i])})

\* a list of a number and a string to normalize gives the one string
C15_Witness ==
    /\ last.op = "norm_list"
    /\ last.x = List(<<Num, rAB>>)
    /\ last.out = <<sAB>> /\ last.set = {sAB}

\* ---- C16
\* the skill and language fields of a normalized offer
SkillFields ==
    {"skills_hard_required", "skills_hard_optional", "skills_soft",
     "languages_required", "languages_optional"}

\* e is a non-empty lowercase string without leading or trailing whitespace
LowerTrimmed(e) ==
    /\ IsStr(e)
    /\ e.v # <<>>
    /\ \A j \in 1..Len(e.v) : e.v[j] \notin {"A", "B"}
    /\ e.v[1] \notin Whitespace
    /\ e.v[Len(e.v)] \notin Whitespace

\* C16: every record the normalizer produces has each of its five skill and
\* language fields as a non-null collection of lowercase, trimmed,
\* non-empty strings, and empty where the source lacks the concept (Welcome
\* to the Jungle: skills_hard_optional and languages_required).
C16_RecordFieldsNormalized ==
    (last.op = "merge_sources" /\ last.status = "ok") =>
        \A i \in 1..Len(last.out) :
            /\ \A f \in SkillFields :
                 /\ IsList(last.out[i][f])
                 /\ \A j \in 1..Len(last.out[i][f].v) : LowerTrimmed(last.out[i][f].v[j])
            /\ last.out[i].source = "Welcome to the Jungle" =>
                 /\ last.out[i].skills_hard_optional = List(<<>>)
                 /\ last.out[i].languages_required = List(<<>>)

\* ---- C17
\* every hard-required item of the job that survives normalization equals,
\* once both are normalized, some hard skill of the CV
LiterallyCovered(cv, job) ==
    LET c == Get(cv, "skills_hard", None)
        j == Get(job, "skills_hard_required", None)
    IN  IsList(j) =>
          \A i \in 1..Len(j.v) :
              (IsStr(j.v[i]) /\ Truthy(norm_text(j.v[i]))) =>
                  /\ IsList(c)
                  /\ \E k \in 1..Len(c.v) :
                       IsStr(c.v[k]) /\ norm_text(c.v[k]) = norm_text(j.v[i])

\* C17: when every hard-required item of the job is, after normalization,
\* literally among the CV's hard skills, match_cv_job reports
\* hard_required_coverage 1.0 and no hard_required_missing, with or without
\* the semantic fallback.
C17_LiteralMatchIsFullCoverage ==
    ( /\ last.op = "match_cv_job" /\ last.status = "ok"
      /\ LiterallyCovered(last.cv, last.job) ) =>
        /\ last.out.hard_required_coverage = 100
        /\ last.out.hard_required_missing = <<>>

\* the job asks for " A", the CV lists "a" and "b", the fallback is off:
\* the item counts as present only after lowercasing and trimming
C17_Witness ==
    /\ last.op = "match_cv_job" /\ last.status = "ok"
    /\ ~last.opt.use_semantic_skills
    /\ last.cv = cv2 /\ last.job = job2
    /\ last.out.hard_required_coverage = 100
    /\ last.out.hard_required_missing = <<>>

\* ---- C18
\* job item x is similar enough to some CV item
Reaches(x, cv, threshold) ==
    \E k \in 1..Len(cv) : cosine_similarity(x, cv[k]) >= threshold * Hundredth

\* the call recorded in c had items on both sides after normalization, and
\* its matched list is the job items that reach the threshold against some
\* CV item, its missing list the others, each in input order
ClassifiedByMaximum(c) ==
    LET cv == NormElems(c.cv_items)
        job == NormElems(c.job_items)
    IN  /\ c.out.matched = SelectSeq(job, LAMBDA x : Reaches(x, cv, c.threshold))
        /\ c.out.missing = SelectSeq(job, LAMBDA x : ~Reaches(x, cv, c.threshold))

\* both lists of the call recorded in c are non-empty after normalization
BothSides(c) ==
    c.op = "semantic_overlap" /\ NormElems(c.cv_items) # <<>> /\ NormElems(c.job_items) # <<>>

\* C18 as stated: with both lists non-empty, semantic_overlap puts a job
\* item in matched exactly when its maximum similarity over the CV items is
\* >= threshold and in missing otherwise, and the coverage returned is
\* matched count / job item count.
C18_CoverageIsExactRatio ==
    BothSides(last) =>
        /\ ClassifiedByMaximum(last)
        /\ last.out.coverage * Len(NormElems(last.job_items))
             = Len(last.out.matched) * Unit

\* C18 amended: the classification as stated, and the coverage returned is
\* matched count / job item count rounded to two decimals.
C18_CoverageIsRoundedRatio ==
    BothSides(last) =>
        /\ ClassifiedByMaximum(last)
        /\ last.out.coverage % Hundredth = 0
        /\ 2 * (last.out.coverage * Len(NormElems(last.job_items))
                  - Len(last.out.matched) * Unit)
             <= Hundredth * Len(NormElems(last.job_items))
        /\ 2 * (Len(last.out.matched) * Unit
                  - last.out.coverage * Len(NormElems(last.job_items)))
             <= Hundredth * Len(NormElems(last.job_items))

\* one of three job items matched: the coverage returned is 0.33
C18_Witness ==
    /\ BothSides(last)
    /\ Len(NormElems(last.job_items)) = 3
    /\ Len(last.out.matched) = 1 /\ Len(last.out.missing) = 2
    /\ last.out.coverage = 33 * Hundredth

\* ---- C19
\* the step loads no model and encodes nothing
NoEmbedding == UNCHANGED <<_MODEL, instances, embedded>>

\* C19: semantic_overlap returns coverage 1.0 with empty matched and missing
\* lists when job_items normalizes to empty, whatever cv_items is, and
\* coverage 0.0 with missing equal to all the job items when cv_items is
\* empty and job_items is not; in both cases no embedding is computed.
C19_EmptySideShortCircuits ==
    [][ last'.op = "semantic_overlap" =>
          /\ NormElems(last'.job_items) = <<>> =>
               /\ last'.out = [matched |-> <<>>, missing |-> <<>>, coverage |-> Unit]
               /\ NoEmbedding
          /\ (NormElems(last'.job_items) # <<>> /\ NormElems(last'.cv_items) = <<>>) =>
               /\ last'.out = [matched |-> <<>>,
                               missing |-> NormElems(last'.job_items),
                               coverage |-> 0]
               /\ NoEmbedding ]_vars

\* no CV item and a job list whose only element is not a string: full
\* coverage, and the model is still not loaded
C19_Witness ==
    /\ last.op = "semantic_overlap"
    /\ last.cv_items = <<>> /\ last.job_items = <<Num>>
    /\ last.out.coverage = Unit /\ last.out.missing = <<>>
    /\ _MODEL = NoModel /\ ~embedded

\* ---- C20
\* the value is not a string, or is empty once normalized
EmptyText(x) == ~IsStr(x) \/ norm_text(x).v = <<>>

\* C20: semantic_similarity_text returns 0.0 without embedding anything
\* whenever either text is empty after normalization; so match_cv_job
\* reports description_similarity 0.0 for a job whose description is empty
\* or missing, whatever the CV text, and also when use_description_semantic
\* is False (and then, the skill fallback being off too, embeds nothing).
C20_EmptyTextScoresZero ==
    [][ /\ ( /\ last'.op = "semantic_similarity_text"
             /\ (EmptyText(last'.cv_text) \/ EmptyText(last'.job_text)) ) =>
               (last'.out = 0 /\ NoEmbedding)
        /\ ( /\ last'.op = "match_cv_job" /\ last'.status = "ok"
             /\ \/ EmptyText(Get(last'.job, "description", Empty))
                \/ ~last'.opt.use_description_semantic ) =>
               /\ last'.out.description_similarity = 0
               /\ ~last'.opt.use_semantic_skills => NoEmbedding ]_vars

\* a CV text against an empty description: 0.0, and the model is still not
\* loaded
C20_Witness ==
    /\ last.op = "semantic_similarity_text"
    /\ last.cv_text = rAB /\ last.job_text = Empty
    /\ last.out = 0
    /\ _MODEL = NoModel /\ ~embedded

\* ---- C21
\* the fallback applies to category c: it is enabled, the job side is not
\* empty and some job item is not literally in the CV set
FallbackApplies(cv, job, opt, c) ==
    LET cv_list == norm_list(Get(cv, FallbackFields[c][1], None))
        job_list == norm_list(Get(job, FallbackFields[c][2], None))
    IN  /\ opt.use_semantic_skills
        /\ job_list # <<>>
        /\ \E i \in 1..Len(job_list) : \A k \in 1..Len(cv_list) : cv_list[k] # job_list[i]

\* the job with its optional languages replaced by langs
WithOptionalLanguages(job, langs) == [languages_optional |-> langs] @@ job

\* C21: for hard-required, hard-optional and required-language the coverage
\* used is the one of semantic_overlap exactly when use_semantic_skills is
\* set, the job list is non-empty and some job item is not literally in the
\* CV set, and the exact coverage otherwise; soft_coverage is always the
\* exact coverage, and the optional languages never change the score.
C21_FallbackOnlyWhenIncomplete ==
    (last.op = "match_cv_job" /\ last.status = "ok") =>
        /\ \A c \in DOMAIN FallbackFields :
             /\ c \in last.sem_calls <=> FallbackApplies(last.cv, last.job, last.opt, c)
             /\ last.out[CategoryFields[c][3]] * Hundredth
                  = IF FallbackApplies(last.cv, last.job, last.opt, c)
                    THEN semantic_overlap(ProcState,
                                          norm_list(Get(last.cv, FallbackFields[c][1], None)),
                                          norm_list(Get(last.job, FallbackFields[c][2], None)),
                                          last.opt.skill_threshold * Hundredth).out.coverage
                    ELSE Round2(coverage(to_set(Get(last.cv, FallbackFields[c][1], None)),
                                         to_set(Get(last.job, FallbackFields[c][2], None))))
                         * Hundredth
        /\ last.out.soft_coverage
             = Round2(coverage(to_set(Get(last.cv, "skills_soft", None)),
                               to_set(Get(last.job, "skills_soft", None))))
        /\ \A langs \in {List(<<>>), List(<<sA, sB, sAB>>)} :
             match_cv_job(ProcState, last.cv,
                          WithOptionalLanguages(last.job, langs), last.opt).out.score
               = last.out.score

\* the fallback is on: the required skills and the language are literally
\* covered and keep their exact coverage, the optional skill "a b" is not
\* and gets the fallback, which matches it at threshold 0.50
C21_Witness ==
    /\ last.op = "match_cv_job" /\ last.status = "ok"
    /\ last.cv = cv2 /\ last.job = job1
    /\ last.opt.use_semantic_skills /\ last.opt.skill_threshold = 50
    /\ last.sem_calls = {"hard_optional"}
    /\ last.out.hard_optional_coverage = 100
    /\ last.out.hard_required_coverage = 100

\* ---- C22
\* the CV field, the job field and the reported missing list of each category
MissingFields ==
    [hard_required |-> <<"skills_hard", "skills_hard_required", "hard_required_missing">>,
     hard_optional |-> <<"skills_hard", "skills_hard_optional", "hard_optional_missing">>,
     soft |-> <<"skills_soft", "skills_soft", "soft_skills_missing">>,
     languages |-> <<"languages", "languages_required", "languages_required_missing">>,
     languages_optional |-> <<"languages", "languages_optional", "languages_optional_missing">>]

\* the list is strictly ascending in string order: sorted, without duplicates
StrictlyAscending(list) ==
    \A i \in 1..(Len(list) - 1) : StrLess(list[i].v, list[i + 1].v)

\* C22: the missing list match_cv_job reports for a category is the
\* fallback's missing list when the fallback was computed for it, else the
\* normalized job set minus the normalized CV set; it is always sorted
\* ascending, without duplicates, and within the job's normalized items.
C22_MissingLists ==
    (last.op = "match_cv_job" /\ last.status = "ok") =>
        \A c \in DOMAIN MissingFields :
            LET cv_list == norm_list(Get(last.cv, MissingFields[c][1], None))
                job_list == norm_list(Get(last.job, MissingFields[c][2], None))
                reported == last.out[MissingFields[c][3]]
            IN  /\ SetOf(reported)
                     = IF c \in last.sem_calls
                       THEN SetOf(semantic_overlap(ProcState, cv_list, job_list,
                                                   last.opt.skill_threshold * Hundredth)
                                      .out.missing)
                       ELSE SetOf(job_list) \ SetOf(cv_list)
                /\ StrictlyAscending(reported)
                /\ SetOf(reported) \subseteq SetOf(job_list)

\* the fallback was computed for the required and the optional skills: "b"
\* is not literally in the CV but is matched, so nothing required is
\* missing, while the optional "a b" is reported missing by the fallback
C22_Witness ==
    /\ last.op = "match_cv_job" /\ last.status = "ok"
    /\ last.cv = cv1 /\ last.job = job1
    /\ {"hard_required", "hard_optional"} \subseteq last.sem_calls
    /\ last.out.hard_required_missing = <<>>
    /\ last.out.hard_optional_missing = <<sAB>>
    /\ last.out.soft_skills_missing = <<>>

\* ---- C23
\* the list with the items at positions k and k + 1 exchanged
SwapAt(list, k) ==
    [i \in 1..Len(list) |-> IF i = k THEN list[k + 1] ELSE IF i = k + 1 THEN list[k] ELSE list[i]]

\* the list without the item at position k
Without(list, k) == SubSeq(list, 1, k - 1) \o SubSeq(list, k + 1, Len(list))

\* how many times row r occurs in rows
Occurrences(rows, r) == Cardinality({i \in 1..Len(rows) : rows[i] = r})

\* the two row lists hold the same rows, each as often
SameRows(a, b) ==
    \A r \in SetOf(a) \cup SetOf(b) : Occurrences(a, r) = Occurrences(b, r)

\* C23: match_cv_market evaluates each job exactly once, and a job's row
\* depends only on the cv, the job and the options: exchanging two
\* neighbouring input jobs (hence any permutation) returns the same rows,
\* and removing a job leaves the rows of the other jobs as they were.
C23_RowsIndependentOfOtherJobs ==
    (last.op = "match_cv_market" /\ last.status = "ok") =>
        /\ last.evals = Len(last.df_jobs)
        /\ \A i \in 1..Len(last.out) :
             \E j \in 1..Len(last.df_jobs) :
                last.out[i] = RowOf(last.df_jobs[j],
                                    match_cv_job(ProcState, last.cv, last.df_jobs[j],
                                                 last.opt).out)
        /\ \A k \in 1..(Len(last.df_jobs) - 1) :
             SameRows(last.out,
                      match_cv_market(ProcState, last.cv, SwapAt(last.df_jobs, k),
                                      last.min_score, last.opt).out)
        /\ \A k \in 1..Len(last.df_jobs) :
             \A r \in SetOf(match_cv_market(ProcState, last.cv, Without(last.df_jobs, k),
                                            last.min_score, last.opt).out) :
                r \in SetOf(last.out)

\* a job below min_score stands before one above it: the one above is
\* returned, and both were evaluated
C23_Witness ==
    /\ last.op = "match_cv_market" /\ last.status = "ok"
    /\ last.df_jobs = <<job1, job2>>
    /\ last.evals = 2
    /\ Len(last.out) = 1 /\ last.out[1].job_title = "j2"

\* ---- C24
\* the options with the semantic fallback switched off
WithoutFallback(opt) == [opt EXCEPT !.use_semantic_skills = FALSE]

\* C24: enabling the semantic fallback never lowers a result: each of
\* hard_required_coverage, hard_optional_coverage and
\* languages_required_coverage with use_semantic_skills=True is >= its
\* value with use_semantic_skills=False and, the weights being
\* non-negative, so is the score (skill_threshold <= 0.95).
C24_FallbackNeverLowers ==
    (last.op = "match_cv_job" /\ last.status = "ok" /\ last.opt.use_semantic_skills) =>
        \E exact \in {match_cv_job(ProcState, last.cv, last.job,
                                   WithoutFallback(last.opt)).out} :
            /\ last.out.hard_required_coverage >= exact.hard_required_coverage
            /\ last.out.hard_optional_coverage >= exact.hard_optional_coverage
            /\ last.out.languages_required_coverage >= exact.languages_required_coverage
            /\ last.out.score >= exact.score

\* ---- C25
\* the categories with a reported coverage
CoveredCategories == {"hard_required", "hard_optional", "soft", "languages"}

\* C25 as stated: in every result of match_cv_job, for hard_required,
\* hard_optional, soft and languages_required, the reported coverage is 1.0
\* if and only if the reported missing list of the category is empty.
C25_FullCoverageIffNothingMissing ==
    (last.op = "match_cv_job" /\ last.status = "ok") =>
        \A c \in CoveredCategories :
            last.out[CategoryFields[c][3]] = 100 <=> last.out[MissingFields[c][3]] = <<>>

\* C25 amended: an empty missing list always comes with a reported coverage
\* of 1.0, and a reported coverage of 1.0 comes with an empty missing list
\* when the job's list for the category has fewer than 200 items.
C25_FullCoverageIffNothingMissingBelow200 ==
    (last.op = "match_cv_job" /\ last.status = "ok") =>
        \A c \in CoveredCategories :
            /\ last.out[MissingFields[c][3]] = <<>> => last.out[CategoryFields[c][3]] = 100
            /\ ( /\ last.out[CategoryFields[c][3]] = 100
                 /\ Len(norm_list(Get(last.job, CategoryFields[c][2], None))) < 200 )
                 => last.out[MissingFields[c][3]] = <<>>

\* the fallback matched every required item of a short list: coverage 1.0
\* and nothing missing, while the soft skills are half covered with one
\* missing
C25_Witness ==
    /\ last.op = "match_cv_job" /\ last.status = "ok"
    /\ last.cv = cv1 /\ last.job = job3
    /\ "hard_required" \in last.sem_calls
    /\ last.out.hard_required_coverage = 100 /\ last.out.hard_required_missing = <<>>
    /\ last.out.soft_coverage = 0 /\ last.out.soft_skills_missing = <<sA>>

\* ---- C26
\* C26: analysis/semantic_matching.semantic_overlap and
\* analysis/matching.semantic_overlap are interchangeable: for every pair of
\* already-normalized string lists, an empty cv list or an empty job list
\* included, and every threshold they return the same matched list, missing
\* list and coverage.
C26_OverlapsInterchangeable ==
    last.op = "semantic_matching.semantic_overlap" =>
        last.out = semantic_overlap(ProcState, last.cv_skills, last.job_skills,
                                    last.threshold * Hundredth).out

\* ---- C27
\* C27: fetch_all_ft_offers never returns more than max_results offers:
\* with an API that returns at most step results per page, for every
\* step >= 1 and max_results >= 0, max_results not a multiple of step
\* included, the number of rows collected is <= max_results, and the loop
\* stops at the first empty or short page.
C27_AtMostMaxResults ==
    (last.op = "fetch_all_ft_offers" /\ last.status = "ok") =>
        /\ Len(last.out) <= last.max_results
        /\ \A k \in 1..(last.requests - 1) : PageOf(last.pages, k) = last.step

\* ---- C28
\* the three session values are all None, or none of them is
AllNone(s) == \A k \in SessionKeys : s[k] = None
AllSet(s) == \A k \in SessionKeys : s[k] \notin {None, Absent}

\* C28: at the end of every script run, after any sequence of submit and
\* clear-snapshot actions, early stops included, session_state.df, tmp_csv
\* and source are either all None or all set; a submit clears all three and
\* removes the previous snapshot file before loading, so a failed load
\* leaves all three None.
C28_SessionAllOrNothing ==
    last.op = "script_run" =>
        /\ AllNone(session_state) \/ AllSet(session_state)
        /\ (last.click = "submit" /\ last.end # "rerun") => AllNone(session_state)
        /\ (last.click = "submit" /\ last.before # session_state.tmp_csv)
               => last.before \notin tmp_files

\* a submit over a loaded session stopped on an empty collection: the
\* session that was set is all None and its snapshot file is gone
C28_Witness ==
    /\ last.op = "script_run" /\ last.click = "submit"
    /\ last.end = "stop: no offers"
    /\ last.before \notin {Absent, None}
    /\ AllNone(session_state)
    /\ last.before \notin tmp_files

\* ---- C29
\* C29: when the user selects the CSV mode of the load form (the non-Live
\* option of the Mode selectbox) and submits, the dashboard shows the file
\* uploader, loads the dataset from the uploaded CSV and performs no live
\* collection (no France Travail API call and no WTTJ scrape).
C29_CsvModeLoadsUpload ==
    (last.op = "script_run" /\ last.click = "submit" /\ last.mode = CsvMode) =>
        /\ last.uploader
        /\ last.collected = {}
        /\ last.end = "rerun" => session_state.df = Frame(<<UploadedCsv>>)

\* ---- C30
\* no title of the frame passes the filter: similarity >= min_similarity and
\* title different from the normalized query
NonePasses(df, query_title, min_similarity) ==
    \A i \in 1..Len(df) :
        LET title == normalize_title(df[i])
            query == normalize_title(query_title)
        IN  ~(cosine_similarity(query, title) >= min_similarity /\ title # query)

\* C30: find_related_job_titles returns an empty DataFrame and raises no
\* exception when the input has titles but none of them passes the filter
\* (similarity >= min_similarity and title different from the normalized
\* query), the case its caller handles through `related.empty`.
C30_NoRelatedTitleIsEmptyFrame ==
    ( /\ last.op = "find_related_job_titles"
      /\ last.df # <<>>
      /\ NonePasses(last.df, last.query_title, last.min_similarity * Hundredth) )
        => (last.status = "ok" /\ last.out = <<>>)

=============================================================================
